---- MODULE Spec2Model ----
(***************************************************************************)
(* Model of the rate-governed action pipeline of linkedin-automation:      *)
(* the storage counters (package storage), the connect operation           *)
(* (connection.SendConnectionRequest and its phases), the admission        *)
(* checks (connection.CheckDailyLimit, stealth.CheckDailyLimit,            *)
(* stealth.CheckHourlyLimit), the retry wrapper (retryWithBackoff) and the *)
(* message operation (messaging.SendMessage).                              *)
(*                                                                         *)
(* The browser is the environment: every page primitive (Navigate,         *)
(* Element, Click, Eval, ...) succeeds or fails nondeterministically.      *)
(* Time is counted in ticks; TicksPerDay ticks make one calendar day.      *)
(***************************************************************************)
EXTENDS Integers, Sequences, FiniteSets, TLC

\* ------------------------------------------------------------------ bounds
DailyLimit == 1      \* cfg.Connection.DailyLimit (Validate: positive)
TicksPerDay == 1     \* clock ticks in one calendar day
MaxTime == 1         \* the clock stops at this tick
MaxCalls == 2        \* operations the harness invokes in one run
MaxArg == 6          \* arguments of the pure limit checks range over 0..MaxArg
MaxN == 3            \* maxRetries of retryWithBackoff ranges over 1..MaxN
MaxCycles == 5       \* iterations of the main loop in one run
MaxRuns == 1         \* iterations of the main loop that may enter runAutomationCycle
DelayAfterAcceptance == 0   \* cfg.Messaging.DelayAfterAcceptanceHours, in ticks (not validated; 0 when unset)
MaxLen == 3          \* texts typed with typo draws have up to MaxLen characters
MaxOver == 1         \* long notes have MaxNoteLength - MaxOver .. MaxNoteLength + 3 + MaxOver characters
MaxCoord == 1        \* coordinates of the points range over 0..MaxCoord
MaxSteps == 4        \* sample counts of CubicBezierCurve range over 2..MaxSteps
MaxHourly == 17      \* actionsThisHour of GetCooldownDuration ranges over -1..MaxHourly
MaxContent == 16     \* contentLength of ReadingDelay ranges over -MaxContent..MaxContent
JitterSteps == 10    \* rng.Float64() takes the values k / JitterSteps, k < JitterSteps
MaxProfiles == 51    \* profiles of one batch in the profile loop taken alone
MaxStoreOps == 6     \* storage operations and clock advances of the storage run taken alone
MaxSeed == 1         \* connection requests recorded before and between the follow-up runs
MaxFollowRuns == 2   \* cycles whose phase 3 runs in the follow-up run taken alone
MaxSearchRuns == 2   \* iterations of the main loop that may run a search followed page by page
MaxResults == 2      \* cfg.Search.MaxResults (Validate: positive)

Procs == {1, 2}      \* invocations that may be in flight (2 only in SpecConc)
Worker == 1          \* the single worker of the design
Urls == {"u1", "u2"}
ActionTypes == {"connection_request", "message_sent"}   \* the types RecordAction is called with
NoteArgs == {"", "custom"}   \* note argument: none, or a personalized note

\* ------------------------------------------------------- program constants
MaxRetries == 3          \* retryWithBackoff(..., 3)
MaxLoginRetries == 3     \* auth.MaxLoginRetries
MainProfileSelectors == 4
StickySelectors == 2
MoreSelectors == 3
ConnectOptionSelectors == 5
AddNoteSelectors == 5
SendSelectors == 7
MessageSelectors == 3
MessageFieldSelectors == 3
MessageSendSelectors == 3
DefaultNote == "default"
MaxNoteLength == 300     \* connection.MaxNoteLength
NoteFieldSelectors == 5
BreakEvery == 25         \* ShouldTakeBreak: actionCount%25 == 0
MouseSteps == 50         \* MoveMouse: CubicBezierCurve(..., 50)
RetentionDays == 30      \* CleanupOldActions: datetime('now', '-30 days')
maxProfiles == 10        \* ExtractProfileURLs: const maxProfiles = 10

VARIABLES
    now,                  \* wall clock, in ticks
    connection_requests,  \* table connection_requests, in id order
    actions,              \* table actions, in id order
    messages,             \* table messages, in id order
    profiles,             \* table profiles: the profile_url column (UNIQUE)
    delivered,            \* [Urls -> follow-up messages the page has sent to the profile]
    invitations,          \* [day -> invitations the page has sent: successful clicks on Send]
    pc,                   \* [Procs -> position of the worker]
    call,                 \* [Procs -> locals of the running operation]
    retry,                \* [Procs -> locals of the running retryWithBackoff]
    calls,                \* operations invoked so far
    probe,                \* the last evaluation of a pure function: arguments and result
    main                  \* locals of func main and of the running runAutomationCycle

vars == <<now, connection_requests, actions, messages, profiles, delivered, invitations, pc, call, retry, calls, probe, main>>

\* ------------------------------------------------------------------ storage
\* DATE(t): the calendar day of a timestamp
DateOf(t) == t \div TicksPerDay

\* the calendar days of a run
Days == 0..DateOf(MaxTime)

\* SELECT COUNT(*) FROM connection_requests WHERE DATE(sent_at) = DATE('now')
GetConnectionRequestsSentToday ==
    Cardinality({i \in DOMAIN connection_requests :
                    DateOf(connection_requests[i].sent_at) = DateOf(now)})

\* SELECT COUNT(*) FROM actions WHERE action_type = ? AND DATE(timestamp) = DATE('now')
GetActionsToday(actionType) ==
    Cardinality({i \in DOMAIN actions :
                    /\ actions[i].action_type = actionType
                    /\ DateOf(actions[i].timestamp) = DateOf(now)})

\* INSERT INTO connection_requests (profile_url, note, sent_at); accepted defaults to FALSE
RecordConnectionRequest(table, req) ==
    Append(table, [profile_url |-> req.profile_url, note |-> req.note,
                   sent_at |-> req.sent_at, accepted |-> FALSE])

\* INSERT INTO actions (action_type, timestamp) VALUES (?, CURRENT_TIMESTAMP)
RecordAction(table, actionType) ==
    Append(table, [action_type |-> actionType, timestamp |-> now])

\* UPDATE connection_requests SET accepted = 1 WHERE profile_url = ?
MarkRequestAccepted(table, profileURL) ==
    [i \in DOMAIN table |->
        IF table[i].profile_url = profileURL
        THEN [table[i] EXCEPT !.accepted = TRUE] ELSE table[i]]

\* INSERT INTO messages (profile_url, message, sent_at)
RecordMessage(table, msg) ==
    Append(table, [profile_url |-> msg.profile_url, sent_at |-> msg.sent_at])

\* SELECT COUNT(*) FROM messages WHERE profile_url = ?  (count > 0)
HasSentMessage(profileURL) ==
    \E i \in DOMAIN messages : messages[i].profile_url = profileURL

\* INSERT INTO profiles (profile_url, ...) ON CONFLICT(profile_url) DO UPDATE
SaveProfile(table, profileURL) == table \cup {profileURL}

\* SELECT COUNT(*) FROM profiles WHERE profile_url = ?  (count > 0)
ProfileExists(table, profileURL) == profileURL \in table

\* variant: the cutoff is the present moment: every earlier row is deleted
CleanupOldActions_NoCutoff(table) ==
    LET Kept(a) == ~(a.timestamp <= now)
    IN SelectSeq(table, Kept)

\* DELETE FROM actions WHERE timestamp < datetime('now', '-30 days')
CleanupOldActions(table) ==
    LET Kept(a) == ~(a.timestamp < now - RetentionDays * TicksPerDay)
    IN SelectSeq(table, Kept)

\* ------------------------------------------------------- admission checks
\* variant: the limit itself is still admitted (> in place of >=)
CheckDailyLimit_Strict(currentCount, limit) ==
    IF currentCount > limit THEN <<FALSE, 0>> ELSE <<TRUE, limit - currentCount>>

\* stealth.CheckDailyLimit(currentCount, limit) -> <<allowed, remaining>>
CheckDailyLimit(currentCount, limit) ==
    IF currentCount >= limit THEN <<FALSE, 0>> ELSE <<TRUE, limit - currentCount>>

\* stealth.CheckHourlyLimit(currentCount, limit) -> <<allowed, remaining>>
CheckHourlyLimit(currentCount, limit) ==
    IF currentCount >= limit THEN <<FALSE, 0>> ELSE <<TRUE, limit - currentCount>>

\* variant: the last slot is counted as still free (>= in place of >)
connection_CheckDailyLimit_AllowsAtLimit(requestsToday, limit) ==
    LET remaining == limit - requestsToday
    IN <<remaining >= 0, remaining>>

\* connection.CheckDailyLimit(cfg) on a store holding requestsToday requests of today
connection_CheckDailyLimit(requestsToday, limit) ==
    LET remaining == limit - requestsToday
    IN <<remaining > 0, remaining>>

\* variant: the gate closes one request late (> in place of >=)
GateDenied_OffByOne(requestsToday) == requestsToday > DailyLimit

\* the gate at the head of SendConnectionRequest: requestsToday >= DailyLimit is denied
GateDenied(requestsToday) == requestsToday >= DailyLimit

\* ------------------------------------------------------------ locator loop
\* variant: the loop without its break: every selector is tried and the
\* last Element call decides
LocatorLoopFrom_NoBreak(i, n, resolves, tried) ==
    [tried |-> [k \in 1..n |-> k],
     found |-> IF n \in resolves THEN n ELSE 0,
     err |-> n \notin resolves]

\* for _, selector := range selectors { el, err = page.Element(selector);
\*                                      if err == nil { break } }
\* resolves: the selectors (by index) the page resolves; tried: the selectors
\* passed to page.Element, in order; found: the selector whose element is
\* used (0: none); err: the error of the last Element call made.
RECURSIVE LocatorLoopFrom(_, _, _, _)
LocatorLoopFrom(i, n, resolves, tried) ==
    IF i > n THEN [tried |-> tried, found |-> 0, err |-> TRUE]
    ELSE IF i \in resolves
         THEN [tried |-> Append(tried, i), found |-> i, err |-> FALSE]
         ELSE LocatorLoopFrom(i + 1, n, resolves, Append(tried, i))

LocatorLoop(n, resolves) == LocatorLoopFrom(1, n, resolves, <<>>)

\* the pages an operation meets: a page carries at most one variant of the
\* element, so it resolves one selector of an n-selector list, or none
Pages(n) == {{}} \cup {{k} : k \in 1..n}

\* one run of a locator loop, with its inputs
Located(n, resolves) ==
    [fn |-> "locate", n |-> n, resolves |-> resolves,
     tried |-> LocatorLoop(n, resolves).tried,
     found |-> LocatorLoop(n, resolves).found,
     err |-> LocatorLoop(n, resolves).err]

\* ------------------------------------------------------ clickDirectConnect
\* variant: gives up after the JavaScript click, without the coordinate click
clickDirectConnect_NoCoordinate(o) ==
    IF o.normal THEN [tried |-> <<"normal">>, err |-> FALSE, by |-> "normal"]
    ELSE IF o.js THEN [tried |-> <<"normal", "js">>, err |-> FALSE, by |-> "js"]
    ELSE [tried |-> <<"normal", "js">>, err |-> TRUE, by |-> "none"]

\* clickDirectConnect(btn, page): normal click, then JavaScript click, then
\* coordinate click (Shape, MoveLinear, Mouse.Click).
\* o: the outcome of each primitive: normal (btn.Click), js (page.Eval click),
\* shape (btn.Shape with a quad), move (Mouse.MoveLinear), cclick (Mouse.Click);
\* tried: the methods attempted, in order; by: the method that clicked.
clickDirectConnect(o) ==
    IF o.normal THEN [tried |-> <<"normal">>, err |-> FALSE, by |-> "normal"]
    ELSE IF o.js THEN [tried |-> <<"normal", "js">>, err |-> FALSE, by |-> "js"]
    ELSE IF o.shape /\ o.move /\ o.cclick
         THEN [tried |-> <<"normal", "js", "coord">>, err |-> FALSE, by |-> "coord"]
         ELSE [tried |-> <<"normal", "js", "coord">>, err |-> TRUE, by |-> "none"]

ClickOutcomes == [normal : BOOLEAN, js : BOOLEAN, shape : BOOLEAN,
                  move : BOOLEAN, cclick : BOOLEAN]

\* ------------------------------------------------------------ call frames
NoCall == [operation |-> "none"]

\* SendConnectionRequest(page, profileURL, note, cfg) on entry
NewConnectCall(url, note) ==
    [operation |-> "connect", profileURL |-> url, note |-> note,
     admit |-> "none",        \* outcome of the daily-limit check of this call
     requestsToday |-> -1,    \* the count the check read
     effects |-> {},          \* side-effecting steps performed by this call
     flowType |-> "",         \* detectConnectFlow
     connectClicked |-> FALSE, \* the connect click was performed
     dialog |-> FALSE,        \* the connect dialog was observed after the click
     noteEntered |-> FALSE,   \* the note was typed into the dialog
     notePhase |-> "none",    \* how the note phase ended: "absent", "click failed",
                              \* "type failed" or "entered"
     sent |-> FALSE,          \* the Send button was clicked successfully
     recordCalls |-> 0,       \* invocations of storage.RecordConnectionRequest
     actionCalls |-> 0,       \* invocations of storage.RecordAction
     err |-> "pending"]       \* the returned error: "nil" or the failure

NoRetry == [operation |-> "none"]

\* retryWithBackoff(operation, maxRetries) on entry
NewRetry(operation, url, note, maxRetries) ==
    [operation |-> operation, profileURL |-> url, note |-> note,
     maxRetries |-> maxRetries, attempt |-> 1,
     backoffs |-> <<>>,       \* seconds slept, in order
     lastErr |-> FALSE,       \* lastErr != nil
     recordCalls |-> 0,       \* RecordConnectionRequest invocations over all attempts
     result |-> "running"]    \* "nil" or "err" once it has returned

\* return err: the call hands its error to the retry wrapper
Return(w, frame, e) ==
    /\ call' = [call EXCEPT ![w] = [frame EXCEPT !.err = e]]
    /\ pc' = [pc EXCEPT ![w] = "op_ret"]

Goto(w, frame, label) ==
    /\ call' = [call EXCEPT ![w] = frame]
    /\ pc' = [pc EXCEPT ![w] = label]

Did(frame, effect) == [frame EXCEPT !.effects = @ \cup {effect}]

\* 2^n
RECURSIVE Pow2(_)
Pow2(n) == IF n = 0 THEN 1 ELSE 2 * Pow2(n - 1)

\* ------------------------------------------------------------------ actions
\* time passes (every phase sleeps; the clock may advance between any two steps)
Tick ==
    /\ now < MaxTime
    /\ now' = now + 1
    /\ UNCHANGED <<connection_requests, actions, messages, profiles, delivered, invitations, pc, call, retry, calls, probe, main>>

\* retryWithBackoff(func() error { return connection.SendConnectionRequest(page,
\*     profile.URL, note, cfg) }, 3): entry and first attempt
InvokeConnect(w) ==
    /\ pc[w] = "idle"
    /\ calls < MaxCalls
    /\ calls' = calls + 1
    /\ \E url \in Urls, note \in NoteArgs :
          /\ retry' = [retry EXCEPT ![w] = NewRetry("connect", url, note, MaxRetries)]
          /\ call' = [call EXCEPT ![w] = NewConnectCall(url, note)]
    /\ pc' = [pc EXCEPT ![w] = "c_gate"]
    /\ UNCHANGED <<now, connection_requests, actions, messages, profiles, delivered, invitations, probe, main>>

\* variant: the limit is read but a denied call carries on
Gate_NoAbort(w) ==
    /\ pc[w] = "c_gate"
    /\ LET n == GetConnectionRequestsSentToday
           f == [call[w] EXCEPT !.requestsToday = n]
       IN Goto(w, [f EXCEPT !.admit = IF GateDenied(n) THEN "denied" ELSE "passed"],
               "c_nav")
    /\ UNCHANGED <<now, connection_requests, actions, messages, profiles, delivered, invitations, retry, calls, probe, main>>

\* SendConnectionRequest: "Check daily limit"
Gate(w) ==
    /\ pc[w] = "c_gate"
    /\ \E dbOk \in BOOLEAN :
          IF ~dbOk
          THEN Return(w, call[w], "failed to check daily limit")
          ELSE LET n == GetConnectionRequestsSentToday
                   f == [call[w] EXCEPT !.requestsToday = n]
               IN IF GateDenied(n)
                  THEN Return(w, [f EXCEPT !.admit = "denied"],
                              "daily connection request limit reached")
                  ELSE Goto(w, [f EXCEPT !.admit = "passed"], "c_nav")
    /\ UNCHANGED <<now, connection_requests, actions, messages, profiles, delivered, invitations, retry, calls, probe, main>>

\* SendConnectionRequest: Navigate, WaitLoad, scroll, removeOverlayBlockers
Navigate(w) ==
    /\ pc[w] = "c_nav"
    /\ \E navOk \in BOOLEAN, loadOk \in BOOLEAN :
          LET f == Did(call[w], "navigate")
          IN IF ~navOk THEN Return(w, f, "failed to navigate to profile")
             ELSE IF ~loadOk THEN Return(w, f, "failed to wait for page load")
             ELSE Goto(w, f, "c_locate")
    /\ UNCHANGED <<now, connection_requests, actions, messages, profiles, delivered, invitations, retry, calls, probe, main>>

\* detectConnectFlow: any[k] says some selector of the k-th list resolves
\* (1 main profile, 2 sticky header, 3 generic fallback, 4 More button)
detectConnectFlow(any) ==
    IF any[1] THEN "direct"
    ELSE IF any[2] THEN "sticky"
    ELSE IF any[3] THEN "direct"
    ELSE IF any[4] THEN "more"
    ELSE "none"

FlowSelectors(flow) ==
    IF flow = "direct" THEN MainProfileSelectors
    ELSE IF flow = "sticky" THEN StickySelectors
    ELSE MoreSelectors

\* ClickConnectButton: detect the flow ("none" is an error), then re-fetch the
\* button of the detected flow with the flow's own selector list
LocateConnect(w) ==
    /\ pc[w] = "c_locate"
    /\ \E any \in [1..4 -> BOOLEAN] :
          LET flow == detectConnectFlow(any)
              f == [call[w] EXCEPT !.flowType = flow]
          IN IF flow = "none"
             THEN Return(w, f, "no connect option available")
             ELSE \E resolves \in Pages(FlowSelectors(flow)) :
                     IF LocatorLoop(FlowSelectors(flow), resolves).err
                     THEN Return(w, f, "failed to find connect button")
                     ELSE Goto(w, f, IF flow = "more" THEN "c_more" ELSE "c_click")
    /\ UNCHANGED <<now, connection_requests, actions, messages, profiles, delivered, invitations, retry, calls, probe, main>>

\* ClickConnectButton, direct and sticky flows: clickDirectConnect(btn, page)
ClickDirect(w) ==
    /\ pc[w] = "c_click"
    /\ \E o \in ClickOutcomes :
          IF clickDirectConnect(o).err
          THEN Return(w, Did(call[w], "click"), "all click methods failed")
          ELSE Goto(w, [Did(call[w], "click") EXCEPT !.connectClicked = TRUE], "c_verify")
    /\ UNCHANGED <<now, connection_requests, actions, messages, profiles, delivered, invitations, retry, calls, probe, main>>

\* ClickConnectButton, More flow: clickConnectFromMoreMenu(page, moreBtn)
ClickMore(w) ==
    /\ pc[w] = "c_more"
    /\ \E moreOk \in BOOLEAN, optOk \in BOOLEAN,
          resolves \in Pages(ConnectOptionSelectors) :
          LET f == Did(call[w], "click")
          IN IF ~moreOk THEN Return(w, f, "failed to click More button")
             ELSE IF LocatorLoop(ConnectOptionSelectors, resolves).err
                  THEN Return(w, f, "Connect/Add option not found in dropdown")
             ELSE IF ~optOk THEN Return(w, f, "failed to click Connect/Add option")
             ELSE Goto(w, [f EXCEPT !.connectClicked = TRUE], "c_verify")
    /\ UNCHANGED <<now, connection_requests, actions, messages, profiles, delivered, invitations, retry, calls, probe, main>>

\* variant: the click is trusted, the dialog is not required
VerifyDialog_Unchecked(w) ==
    /\ pc[w] = "c_verify"
    /\ \E dialog \in BOOLEAN :
          Goto(w, [call[w] EXCEPT !.flowType = "", !.dialog = dialog], "c_note")
    /\ UNCHANGED <<now, connection_requests, actions, messages, profiles, delivered, invitations, retry, calls, probe, main>>

\* verifyConnectDialogAppeared(page); flowType is a local of ClickConnectButton
VerifyDialog(w) ==
    /\ pc[w] = "c_verify"
    /\ \E dialog \in BOOLEAN :
          LET f == [call[w] EXCEPT !.flowType = "", !.dialog = dialog]
          IN IF ~dialog
             THEN Return(w, f, "connect dialog did not appear after click")
             ELSE Goto(w, f, "c_note")
    /\ UNCHANGED <<now, connection_requests, actions, messages, profiles, delivered, invitations, retry, calls, probe, main>>

\* variant: a note that could not be typed fails the operation
AddNote_FailsOnTypeError(w) ==
    /\ pc[w] = "c_note"
    /\ \E has \in BOOLEAN, clickOk \in BOOLEAN, typeOk \in BOOLEAN,
          resolves \in Pages(AddNoteSelectors) :
          LET f == [call[w] EXCEPT !.note = IF @ = "" THEN DefaultNote ELSE @]
              ended(g, how) == [g EXCEPT !.notePhase = how]
          IN IF ~has THEN Goto(w, ended(f, "absent"), "c_send")
             ELSE IF LocatorLoop(AddNoteSelectors, resolves).err
                  THEN Goto(w, ended(f, "click failed"), "c_send")
             ELSE IF ~clickOk THEN Goto(w, ended(Did(f, "click"), "click failed"), "c_send")
             ELSE IF ~typeOk
                  THEN Return(w, ended(Did(Did(f, "click"), "type"), "type failed"),
                              "failed to type personalized note")
             ELSE Goto(w, [ended(Did(Did(f, "click"), "type"), "entered")
                              EXCEPT !.noteEntered = TRUE], "c_send")
    /\ UNCHANGED <<now, connection_requests, actions, messages, profiles, delivered, invitations, retry, calls, probe, main>>

\* SendConnectionRequest: default note, hasAddNoteOption, clickAddNoteButton,
\* TypePersonalizedNote; every failure of this phase is only logged
AddNote(w) ==
    /\ pc[w] = "c_note"
    /\ \E has \in BOOLEAN, clickOk \in BOOLEAN, typeOk \in BOOLEAN,
          resolves \in Pages(AddNoteSelectors) :
          LET f == [call[w] EXCEPT !.note = IF @ = "" THEN DefaultNote ELSE @]
              ended(g, how) == [g EXCEPT !.notePhase = how]
          IN IF ~has THEN Goto(w, ended(f, "absent"), "c_send")
             ELSE IF LocatorLoop(AddNoteSelectors, resolves).err
                  THEN Goto(w, ended(f, "click failed"), "c_send")
             ELSE IF ~clickOk THEN Goto(w, ended(Did(f, "click"), "click failed"), "c_send")
             ELSE Goto(w, [ended(Did(Did(f, "click"), "type"),
                                 IF typeOk THEN "entered" ELSE "type failed")
                              EXCEPT !.noteEntered = typeOk], "c_send")
    /\ UNCHANGED <<now, connection_requests, actions, messages, profiles, delivered, invitations, retry, calls, probe, main>>

\* clickSendButton(page)
ClickSend(w) ==
    /\ pc[w] = "c_send"
    /\ \E clickOk \in BOOLEAN, resolves \in Pages(SendSelectors) :
          IF LocatorLoop(SendSelectors, resolves).err
          THEN Return(w, call[w], "send button not found after trying all selectors")
          ELSE IF ~clickOk
               THEN Return(w, Did(call[w], "click"), "failed to click send button")
               ELSE Goto(w, [Did(call[w], "click") EXCEPT !.sent = TRUE], "c_record")
    /\ invitations' = IF pc'[w] = "c_record"
                      THEN [invitations EXCEPT ![DateOf(now)] = @ + 1]
                      ELSE invitations
    /\ UNCHANGED <<now, connection_requests, actions, messages, profiles, delivered, retry, calls, probe, main>>

\* variant: a storage error of RecordConnectionRequest is returned to the caller
Record_ReturnsStoreError(w) ==
    /\ pc[w] = "c_record"
    /\ \E reqOk \in BOOLEAN :
          /\ connection_requests' =
                IF reqOk
                THEN RecordConnectionRequest(connection_requests,
                        [profile_url |-> call[w].profileURL, note |-> call[w].note,
                         sent_at |-> now])
                ELSE connection_requests
          /\ actions' = IF reqOk THEN RecordAction(actions, "connection_request")
                        ELSE actions
          /\ Return(w, [Did(call[w], "record")
                           EXCEPT !.recordCalls = @ + 1,
                                  !.actionCalls = IF reqOk THEN @ + 1 ELSE @],
                    IF reqOk THEN "nil" ELSE "failed to record request")
    /\ retry' = [retry EXCEPT ![w].recordCalls = @ + 1]
    /\ UNCHANGED <<now, messages, profiles, delivered, invitations, calls, probe, main>>

\* SendConnectionRequest: dismissVerificationPrompt, storage.RecordConnectionRequest,
\* storage.RecordAction("connection_request"), return nil; a storage error is only logged
Record(w) ==
    /\ pc[w] = "c_record"
    /\ \E reqOk \in BOOLEAN, actOk \in BOOLEAN :
          /\ connection_requests' =
                IF reqOk
                THEN RecordConnectionRequest(connection_requests,
                        [profile_url |-> call[w].profileURL, note |-> call[w].note,
                         sent_at |-> now])
                ELSE connection_requests
          /\ actions' = IF actOk THEN RecordAction(actions, "connection_request")
                        ELSE actions
    /\ Return(w, [Did(call[w], "record")
                     EXCEPT !.recordCalls = @ + 1, !.actionCalls = @ + 1], "nil")
    /\ retry' = [retry EXCEPT ![w].recordCalls = @ + 1]
    /\ UNCHANGED <<now, messages, profiles, delivered, invitations, calls, probe, main>>

\* operation(): the closure handed to retryWithBackoff, called afresh
NewOpCall == [operation |-> "op", err |-> "pending"]

\* messaging.ProcessNewConnections(page, cfg) on entry
NewProcessCall ==
    [operation |-> "process",
     skipped |-> {},          \* URLs SendMessage skipped: "Message already sent to this profile"
     err |-> "pending"]

NewCall(r) ==
    IF r.operation = "connect" THEN NewConnectCall(r.profileURL, r.note)
    ELSE IF r.operation = "process" THEN NewProcessCall
    ELSE NewOpCall

EntryOf(operation) ==
    IF operation = "connect" THEN "c_gate"
    ELSE IF operation = "process" THEN "p_run"
    ELSE "r_op"

\* retryWithBackoff(operation, maxRetries) on any operation: entry
InvokeRetry(w) ==
    /\ pc[w] = "idle"
    /\ calls < MaxCalls
    /\ calls' = calls + 1
    /\ \E n \in 1..MaxN : retry' = [retry EXCEPT ![w] = NewRetry("op", "", "", n)]
    /\ call' = [call EXCEPT ![w] = NewOpCall]
    /\ pc' = [pc EXCEPT ![w] = "r_op"]
    /\ UNCHANGED <<now, connection_requests, actions, messages, profiles, delivered, invitations, probe, main>>

\* err := operation(): any operation, returning nil or an error
OpReturns(w) ==
    /\ pc[w] = "r_op"
    /\ \E ok \in BOOLEAN :
          Return(w, call[w], IF ok THEN "nil" ELSE "operation failed")
    /\ UNCHANGED <<now, connection_requests, actions, messages, profiles, delivered, invitations, retry, calls, probe, main>>

\* variant: the backoff is slept after the last attempt too
RetryReturn_SleepsAfterLast(w) ==
    /\ pc[w] = "op_ret"
    /\ LET r == retry[w]
           e == call[w].err
       IN IF e = "nil"
          THEN /\ retry' = [retry EXCEPT ![w].result = "nil"]
               /\ pc' = [pc EXCEPT ![w] = "idle"]
               /\ call' = [call EXCEPT ![w] = NoCall]
          ELSE IF r.attempt < r.maxRetries
               THEN /\ retry' = [retry EXCEPT ![w].lastErr = TRUE,
                                              ![w].backoffs = Append(@, Pow2(r.attempt)),
                                              ![w].attempt = @ + 1]
                    /\ pc' = [pc EXCEPT ![w] = EntryOf(r.operation)]
                    /\ call' = [call EXCEPT ![w] = NewCall(r)]
               ELSE /\ retry' = [retry EXCEPT ![w].lastErr = TRUE,
                                              ![w].backoffs = Append(@, Pow2(r.attempt)),
                                              ![w].result = "err"]
                    /\ pc' = [pc EXCEPT ![w] = "idle"]
                    /\ call' = [call EXCEPT ![w] = NoCall]
    /\ UNCHANGED <<now, connection_requests, actions, messages, profiles, delivered, invitations, calls, probe, main>>

\* variant: a failed operation is not attempted again
RetryReturn_GiveUp(w) ==
    /\ pc[w] = "op_ret"
    /\ retry' = [retry EXCEPT ![w].lastErr = (call[w].err # "nil"),
                              ![w].result = IF call[w].err = "nil" THEN "nil" ELSE "err"]
    /\ pc' = [pc EXCEPT ![w] = "idle"]
    /\ call' = [call EXCEPT ![w] = NoCall]
    /\ UNCHANGED <<now, connection_requests, actions, messages, profiles, delivered, invitations, calls, probe, main>>

\* retryWithBackoff: the operation has returned
RetryReturn(w) ==
    /\ pc[w] = "op_ret"
    /\ LET r == retry[w]
           e == call[w].err
       IN IF e = "nil"
          THEN /\ retry' = [retry EXCEPT ![w].result = "nil"]
               /\ pc' = [pc EXCEPT ![w] = "idle"]
               /\ call' = [call EXCEPT ![w] = NoCall]
          ELSE IF r.attempt < r.maxRetries
               THEN /\ retry' = [retry EXCEPT ![w].lastErr = TRUE,
                                              ![w].backoffs = Append(@, Pow2(r.attempt)),
                                              ![w].attempt = @ + 1]
                    /\ pc' = [pc EXCEPT ![w] = EntryOf(r.operation)]
                    /\ call' = [call EXCEPT ![w] = NewCall(r)]
               ELSE /\ retry' = [retry EXCEPT ![w].lastErr = TRUE, ![w].result = "err"]
                    /\ pc' = [pc EXCEPT ![w] = "idle"]
                    /\ call' = [call EXCEPT ![w] = NoCall]
    /\ UNCHANGED <<now, connection_requests, actions, messages, profiles, delivered, invitations, calls, probe, main>>

\* --------------------------------------------------------- message operation
\* SendMessage(page, profileURL, message, cfg) on entry
NewMessageCall(url) ==
    [operation |-> "message", profileURL |-> url,
     admit |-> "none",        \* outcome of a rate-limit check of this call
     effects |-> {},          \* side-effecting steps performed by this call
     alreadySent |-> FALSE,   \* storage.HasSentMessage
     sent |-> FALSE,          \* the Send button was clicked successfully
     recordCalls |-> 0,       \* invocations of storage.RecordMessage
     actionCalls |-> 0,       \* invocations of storage.RecordAction
     err |-> "pending"]

\* return err, to ProcessNewConnections
MsgReturn(w, frame, e) ==
    /\ call' = [call EXCEPT ![w] = [frame EXCEPT !.err = e]]
    /\ pc' = [pc EXCEPT ![w] = "m_ret"]

\* ProcessNewConnections: err := SendMessage(page, conn.ProfileURL, message, cfg)
InvokeMessage(w) ==
    /\ pc[w] = "idle"
    /\ calls < MaxCalls
    /\ calls' = calls + 1
    /\ \E url \in Urls : call' = [call EXCEPT ![w] = NewMessageCall(url)]
    /\ pc' = [pc EXCEPT ![w] = "m_check"]
    /\ UNCHANGED <<now, connection_requests, actions, messages, profiles, delivered, invitations, retry, probe, main>>

\* SendMessage: "Check if we've already sent a message to this profile"
CheckHistory(w) ==
    /\ pc[w] = "m_check"
    /\ \E dbOk \in BOOLEAN :
          IF ~dbOk THEN MsgReturn(w, call[w], "failed to check message history")
          ELSE IF HasSentMessage(call[w].profileURL)
               THEN MsgReturn(w, [call[w] EXCEPT !.alreadySent = TRUE], "nil")
               ELSE Goto(w, call[w], "m_nav")
    /\ UNCHANGED <<now, connection_requests, actions, messages, profiles, delivered, invitations, retry, calls, probe, main>>

\* SendMessage: Navigate, WaitLoad
MsgNavigate(w) ==
    /\ pc[w] = "m_nav"
    /\ \E navOk \in BOOLEAN, loadOk \in BOOLEAN :
          LET f == Did(call[w], "navigate")
          IN IF ~navOk THEN MsgReturn(w, f, "failed to navigate to profile")
             ELSE IF ~loadOk THEN MsgReturn(w, f, "failed to wait for page load")
             ELSE Goto(w, f, "m_button")
    /\ UNCHANGED <<now, connection_requests, actions, messages, profiles, delivered, invitations, retry, calls, probe, main>>

\* clickMessageButton(page): locate, Shape, MoveMouse (a failure is only logged), Click
clickMessageButton(w) ==
    /\ pc[w] = "m_button"
    /\ \E resolves \in Pages(MessageSelectors), shapeOk \in BOOLEAN,
          clickOk \in BOOLEAN :
          IF LocatorLoop(MessageSelectors, resolves).err
          THEN MsgReturn(w, call[w], "failed to click message button")
          ELSE IF ~shapeOk THEN MsgReturn(w, call[w], "failed to click message button")
          ELSE IF ~clickOk
               THEN MsgReturn(w, Did(call[w], "click"), "failed to click message button")
               ELSE Goto(w, Did(call[w], "click"), "m_type")
    /\ UNCHANGED <<now, connection_requests, actions, messages, profiles, delivered, invitations, retry, calls, probe, main>>

\* typeMessage(page, message): locate the field, click it, type
typeMessage(w) ==
    /\ pc[w] = "m_type"
    /\ \E resolves \in Pages(MessageFieldSelectors), clickOk \in BOOLEAN :
          IF LocatorLoop(MessageFieldSelectors, resolves).err
          THEN MsgReturn(w, call[w], "failed to type message")
          ELSE IF ~clickOk THEN MsgReturn(w, Did(call[w], "click"), "failed to type message")
          ELSE Goto(w, Did(Did(call[w], "click"), "type"), "m_send")
    /\ UNCHANGED <<now, connection_requests, actions, messages, profiles, delivered, invitations, retry, calls, probe, main>>

\* clickSendMessageButton(page)
clickSendMessageButton(w) ==
    /\ pc[w] = "m_send"
    /\ \E resolves \in Pages(MessageSendSelectors), clickOk \in BOOLEAN :
          IF LocatorLoop(MessageSendSelectors, resolves).err
          THEN MsgReturn(w, call[w], "failed to send message")
          ELSE IF ~clickOk THEN MsgReturn(w, Did(call[w], "click"), "failed to send message")
          ELSE Goto(w, [Did(call[w], "click") EXCEPT !.sent = TRUE], "m_record")
    /\ delivered' = IF pc'[w] = "m_record"
                    THEN [delivered EXCEPT ![call[w].profileURL] = @ + 1]
                    ELSE delivered
    /\ UNCHANGED <<now, connection_requests, actions, messages, profiles, invitations, retry, calls, probe, main>>

\* SendMessage: storage.RecordMessage, storage.RecordAction("message_sent"),
\* return nil; a storage error is only logged
MsgRecord(w) ==
    /\ pc[w] = "m_record"
    /\ \E msgOk \in BOOLEAN, actOk \in BOOLEAN :
          /\ messages' =
                IF msgOk
                THEN RecordMessage(messages,
                        [profile_url |-> call[w].profileURL, sent_at |-> now])
                ELSE messages
          /\ actions' = IF actOk THEN RecordAction(actions, "message_sent") ELSE actions
    /\ MsgReturn(w, [Did(call[w], "record")
                        EXCEPT !.recordCalls = @ + 1, !.actionCalls = @ + 1], "nil")
    /\ UNCHANGED <<now, connection_requests, profiles, delivered, invitations, retry, calls, probe, main>>

\* ProcessNewConnections: SendMessage has returned; an error is logged and the
\* loop continues, otherwise storage.MarkRequestAccepted (its error is only logged)
MessageReturn(w) ==
    /\ pc[w] = "m_ret"
    /\ \E markOk \in BOOLEAN :
          connection_requests' =
             IF call[w].err = "nil" /\ markOk
             THEN MarkRequestAccepted(connection_requests, call[w].profileURL)
             ELSE connection_requests
    /\ pc' = [pc EXCEPT ![w] = "idle"]
    /\ call' = [call EXCEPT ![w] = NoCall]
    /\ UNCHANGED <<now, actions, messages, profiles, delivered, invitations, retry, calls, probe, main>>

\* ------------------------------------------------------- stealth: delays
\* variant: the random part is drawn from 0..delta, one more than Int63n gives
RandomDelay_Inclusive(min, max) ==
    IF min >= max THEN {min}
    ELSE {min + r : r \in 0..((max - min) + 1)}

\* stealth.RandomDelay: the set of values rng.Int63n(delta) can produce, added
\* to min; durations are counted in ticks
RandomDelay(min, max) ==
    IF min >= max THEN {min}
    ELSE {min + r : r \in 0..((max - min) - 1)}

\* variant: a break is considered every 20 actions
ShouldTakeBreak_Every20(actionCount) ==
    IF actionCount > 0 /\ actionCount % 20 = 0 THEN BOOLEAN ELSE {FALSE}

\* stealth.ShouldTakeBreak: the values it can return (rng.Float64() < 0.7)
ShouldTakeBreak(actionCount) ==
    IF actionCount > 0 /\ actionCount % BreakEvery = 0 THEN BOOLEAN ELSE {FALSE}

\* stealth.GetBreakDuration, in minutes
GetBreakDuration == RandomDelay(10, 30)

\* ------------------------------------------------------------- func main
\* main at "Starting main automation loop...": cycleCount := 0, no signal yet
MainStart ==
    [pc |-> "select",       \* select, cycle, profile, send, phase3, process,
                            \* returned, sleep; exited (main returned), crashed (panic)
     cycleCount |-> 0,
     sig |-> FALSE,         \* a signal is buffered in sigChan (capacity 1)
     err |-> FALSE,         \* runAutomationCycle returned a non-nil error
     sleep |-> "none",      \* the time.Sleep in progress: lunch, backoff, next
     backoff |-> 0,         \* seconds of the last backoff
     streak |-> 0,          \* failed cycles in a row, up to now
     profiles |-> <<>>,     \* runAutomationCycle: profiles still to process
     requestsSent |-> 0,    \* runAutomationCycle: requestsSent
     failed |-> 0,          \* runAutomationCycle: profiles given up after all retries
     breakDuration |-> 0,   \* runAutomationCycle: minutes of the break just taken, 0: none
     searchWarned |-> FALSE] \* the search has logged a failed storage call

Min(a, b) == IF a < b THEN a ELSE b

\* variant: the exponent is the cycle count itself, so the cap comes into play
CycleBackoff_NoWrap(cycleCount) == Min(2^cycleCount, 300)

\* math.Min(float64(uint(1)<<uint(cycleCount%5)), 300) seconds
CycleBackoff(cycleCount) == Min(2^(cycleCount % 5), 300)

\* signal.Notify(sigChan, os.Interrupt, syscall.SIGTERM): a signal is delivered
\* into the buffered channel; it is dropped when the buffer is full
Signal ==
    /\ main.pc \notin {"exited", "crashed"}
    /\ main' = [main EXCEPT !.sig = TRUE]
    /\ UNCHANGED <<now, connection_requests, actions, messages, profiles, delivered, invitations, pc, call, retry, calls, probe>>

\* variant: the loop never looks at sigChan
MainSelect_IgnoresSignal ==
    /\ main.pc = "select"
    /\ main.cycleCount < MaxCycles
    /\ \E lunch \in BOOLEAN :
          main' = [main EXCEPT !.cycleCount = @ + 1,
                               !.pc = IF lunch THEN "sleep" ELSE "cycle",
                               !.sleep = IF lunch THEN "lunch" ELSE "none",
                               !.streak = IF lunch THEN 0 ELSE @]
    /\ UNCHANGED <<now, connection_requests, actions, messages, profiles, delivered, invitations, pc, call, retry, calls, probe>>

\* main: select { case <-sigChan: return; default: cycleCount++; IsLunchTime ... }
MainSelect ==
    /\ main.pc = "select"
    /\ IF main.sig
       THEN main' = [main EXCEPT !.pc = "exited", !.sig = FALSE]
       ELSE /\ main.cycleCount < MaxCycles
            /\ \E lunch \in BOOLEAN :
                  main' = [main EXCEPT !.cycleCount = @ + 1,
                                       !.pc = IF lunch THEN "sleep" ELSE "cycle",
                                       !.sleep = IF lunch THEN "lunch" ELSE "none",
                                       !.streak = IF lunch THEN 0 ELSE @]
    /\ UNCHANGED <<now, connection_requests, actions, messages, profiles, delivered, invitations, pc, call, retry, calls, probe>>

\* main: runAutomationCycle has returned: backoff sleep on an error, else the
\* sleep until the next cycle
MainAfterCycle ==
    /\ main.pc = "returned"
    /\ main' = IF main.err
               THEN [main EXCEPT !.pc = "sleep", !.sleep = "backoff",
                                 !.backoff = CycleBackoff(main.cycleCount),
                                 !.streak = @ + 1,
                                 !.profiles = <<>>, !.requestsSent = 0, !.failed = 0,
                                 !.breakDuration = 0, !.searchWarned = FALSE]
               ELSE [main EXCEPT !.pc = "sleep", !.sleep = "next", !.streak = 0,
                                 !.profiles = <<>>, !.requestsSent = 0, !.failed = 0,
                                 !.breakDuration = 0, !.searchWarned = FALSE]
    /\ UNCHANGED <<now, connection_requests, actions, messages, profiles, delivered, invitations, pc, call, retry, calls, probe>>

\* main: time.Sleep is over; continue
MainWake ==
    /\ main.pc = "sleep"
    /\ main' = [main EXCEPT !.pc = "select", !.sleep = "none"]
    /\ UNCHANGED <<now, connection_requests, actions, messages, profiles, delivered, invitations, pc, call, retry, calls, probe>>

\* runAutomationCycle seen from main: any function returning nil or an error
CycleReturns ==
    /\ main.pc = "cycle"
    /\ \E err \in BOOLEAN : main' = [main EXCEPT !.pc = "returned", !.err = err]
    /\ UNCHANGED <<now, connection_requests, actions, messages, profiles, delivered, invitations, pc, call, retry, calls, probe>>

\* ------------------------------------------------------ runAutomationCycle
\* main: the head of the loop, as long as an iteration may still enter
\* runAutomationCycle
CycleSelect ==
    /\ main.cycleCount < MaxRuns
    /\ MainSelect

\* the profile lists a search can return: deduplicated by URL. The profiles
\* are interchangeable, so the lists are the prefixes of one order.
ProfileLists == {<<>>, <<"u1">>, <<"u1", "u2">>}

\* search.SearchAndCollect: SearchProfiles logs the error of a job-title search
\* and carries on, so the error returned is always nil
SearchAndCollect(found) == [profiles |-> found, err |-> FALSE]

\* runAutomationCycle, phase 1: search.SearchAndCollect(page, cfg).
\* ExtractProfileURLs calls page.MustWaitLoad, page.MustEval and
\* page.MustScreenshot, which panic when the page primitive fails; nothing recovers.
CycleSearch ==
    /\ main.pc = "cycle"
    /\ main.cycleCount <= MaxRuns
    /\ \E mustOk \in BOOLEAN, found \in ProfileLists :
          IF ~mustOk
          THEN main' = [main EXCEPT !.pc = "crashed"]
          ELSE /\ Len(found) <= MaxCalls - calls
               /\ LET res == SearchAndCollect(found)
                  IN main' = IF res.err
                             THEN [main EXCEPT !.pc = "returned", !.err = TRUE]
                             ELSE [main EXCEPT !.pc = "profile", !.profiles = res.profiles,
                                               !.requestsSent = 0, !.failed = 0]
    /\ profiles' = IF main'.pc = "profile"
                   THEN profiles \cup {main'.profiles[k] : k \in DOMAIN main'.profiles}
                   ELSE profiles
    /\ UNCHANGED <<now, connection_requests, actions, messages, delivered, invitations, pc, call, retry, calls, probe>>

\* ----------------------------------------------- search, page by page
\* the hrefs of the links of a result page, after cleanProfileURL: profile
\* URLs, and "other" for a link that fails the prefix validation
Hrefs == Urls \cup {"other"}

\* the links of one result page, in document order: one profile, a profile
\* linked twice, two profiles, a link that is no profile
LinkLists == {<<"u1">>, <<"u1", "u1">>, <<"u1", "u2">>, <<"other", "u1">>}

\* the pages one search extracts, over its job titles and result pages
PageLists == {<<>>} \cup {<<a>> : a \in LinkLists}
                   \cup {<<a, b>> : a \in LinkLists, b \in LinkLists}

\* what the storage does during one search: the URLs on which
\* storage.ProfileExists and storage.SaveProfile fail
SearchOutcomes == [existsErr : SUBSET Urls, saveErr : SUBSET Urls]

\* variant: the loop without the look into the profiles table
RECURSIVE ExtractFrom_NoExistsCheck(_, _, _, _)
ExtractFrom_NoExistsCheck(i, links, o, acc) ==
    IF i > Len(links) \/ Len(acc.profiles) >= maxProfiles THEN acc
    ELSE LET profileURL == links[i]
         IN IF profileURL \notin Urls \/ profileURL \in acc.seen
            THEN ExtractFrom_NoExistsCheck(i + 1, links, o, acc)
            ELSE ExtractFrom_NoExistsCheck(i + 1, links, o,
                    [seen |-> acc.seen \cup {profileURL},
                     profiles |-> Append(acc.profiles, profileURL),
                     table |-> IF profileURL \in o.saveErr THEN acc.table
                               ELSE SaveProfile(acc.table, profileURL),
                     warned |-> acc.warned \/ profileURL \in o.saveErr])

\* ExtractProfileURLs, the loop over the links from the i-th on: the
\* extraction limit, the prefix validation, the seen map, storage.ProfileExists
\* (an error does not skip the profile), append, storage.SaveProfile (an error
\* is only logged)
RECURSIVE ExtractFrom(_, _, _, _)
ExtractFrom(i, links, o, acc) ==
    IF i > Len(links) \/ Len(acc.profiles) >= maxProfiles THEN acc
    ELSE LET profileURL == links[i]
             seen == acc.seen \cup {profileURL}
         IN IF profileURL \notin Urls \/ profileURL \in acc.seen
            THEN ExtractFrom(i + 1, links, o, acc)
            ELSE IF profileURL \notin o.existsErr /\ ProfileExists(acc.table, profileURL)
                 THEN ExtractFrom(i + 1, links, o, [acc EXCEPT !.seen = seen])
            ELSE ExtractFrom(i + 1, links, o,
                    [seen |-> seen,
                     profiles |-> Append(acc.profiles, profileURL),
                     table |-> IF profileURL \in o.saveErr THEN acc.table
                               ELSE SaveProfile(acc.table, profileURL),
                     warned |-> acc.warned \/ profileURL \in o.existsErr
                                           \/ profileURL \in o.saveErr])

\* ExtractProfileURLs(page) on a page with these links and this profiles table
ExtractProfileURLs(links, table, o) ==
    ExtractFrom(1, links, o,
                [seen |-> {}, profiles |-> <<>>, table |-> table, warned |-> FALSE])

\* deduplicateProfiles: the first occurrence of every URL, in order
deduplicateProfiles(list) ==
    LET first(i) == \A j \in 1..(i - 1) : list[j] # list[i]
        kept == {i \in DOMAIN list : first(i)}
        rank(i) == Cardinality({j \in kept : j <= i})
    IN [k \in 1..Cardinality(kept) |-> list[CHOOSE i \in kept : rank(i) = k]]

\* SearchProfiles: the pages extracted by the searches of the job titles, from
\* the k-th on; every extraction works on the table the one before left
RECURSIVE SearchFrom(_, _, _, _)
SearchFrom(k, pages, o, acc) ==
    IF k > Len(pages) THEN acc
    ELSE LET r == ExtractProfileURLs(pages[k], acc.table, o)
         IN SearchFrom(k + 1, pages, o,
               [allProfiles |-> acc.allProfiles \o r.profiles, table |-> r.table,
                warned |-> acc.warned \/ r.warned])

\* SearchProfiles(page, criteria, maxPages): the extractions, then deduplicateProfiles
SearchProfiles(pages, table, o) ==
    LET r == SearchFrom(1, pages, o,
                        [allProfiles |-> <<>>, table |-> table, warned |-> FALSE])
    IN [profiles |-> deduplicateProfiles(r.allProfiles), table |-> r.table,
        warned |-> r.warned]

\* SearchAndCollect: profiles[:cfg.Search.MaxResults]
LimitResults(list) == SubSeq(list, 1, Min(Len(list), MaxResults))

\* main: the loop has come round to runAutomationCycle; the clock has
\* advanced during the sleep between the cycles (time.Sleep(nextCycleDelay),
\* the backoff), by less than a tick or by a tick
SearchNextCycle ==
    /\ main.pc \in {"select", "returned"}
    /\ main.cycleCount < MaxSearchRuns
    /\ main' = [main EXCEPT !.pc = "cycle", !.cycleCount = @ + 1, !.err = FALSE,
                            !.profiles = <<>>, !.requestsSent = 0, !.failed = 0,
                            !.breakDuration = 0, !.searchWarned = FALSE]
    /\ \E d \in {0, 1} : now + d <= MaxTime /\ now' = now + d
    /\ UNCHANGED <<connection_requests, actions, messages, profiles, delivered, invitations, pc, call, retry, calls, probe>>

\* runAutomationCycle, phase 3 and the return, seen from the search: no
\* connection request is sent and the profiles table is left alone
SearchPhase3 ==
    /\ main.pc = "phase3"
    /\ pc[Worker] = "idle"
    /\ main' = [main EXCEPT !.pc = "returned", !.err = FALSE]
    /\ retry' = [retry EXCEPT ![Worker] = NoRetry]
    /\ UNCHANGED <<now, connection_requests, actions, messages, profiles, delivered, invitations, pc, call, calls, probe>>

\* runAutomationCycle, phase 1, with the search followed page by page:
\* SearchAndCollect, SearchProfiles, ExtractProfileURLs on every page, against
\* the profiles table; the Must* calls of ExtractProfileURLs panic
SearchRun ==
    /\ main.pc = "cycle"
    /\ main.cycleCount <= MaxSearchRuns
    /\ \E mustOk \in BOOLEAN, o \in SearchOutcomes :
       \E pages \in PageLists :
          IF ~mustOk
          THEN /\ main' = [main EXCEPT !.pc = "crashed"]
               /\ UNCHANGED profiles
          ELSE LET r == SearchProfiles(pages, profiles, o)
                   res == SearchAndCollect(LimitResults(r.profiles))
               IN /\ Len(res.profiles) <= MaxCalls - calls
                  /\ profiles' = r.table
                  /\ main' = [main EXCEPT !.pc = "profile", !.profiles = res.profiles,
                                          !.requestsSent = 0, !.failed = 0,
                                          !.searchWarned = r.warned]
    /\ UNCHANGED <<now, connection_requests, actions, messages, delivered, invitations, pc, call, retry, calls, probe>>

\* runAutomationCycle, phase 2, head of the loop over profiles:
\* connection.CheckDailyLimit (break on an error or when not allowed), the note,
\* then retryWithBackoff(SendConnectionRequest, 3)
CycleProfile ==
    /\ main.pc = "profile"
    /\ pc[Worker] = "idle"
    /\ IF main.profiles = <<>>
       THEN /\ main' = [main EXCEPT !.pc = "phase3"]
            /\ UNCHANGED <<pc, call, retry, calls>>
       ELSE \E dbOk \in BOOLEAN, note \in NoteArgs :
               IF ~dbOk \/ ~connection_CheckDailyLimit(GetConnectionRequestsSentToday,
                                                       DailyLimit)[1]
               THEN /\ main' = [main EXCEPT !.pc = "phase3"]
                    /\ UNCHANGED <<pc, call, retry, calls>>
               ELSE /\ main' = [main EXCEPT !.pc = "send"]
                    /\ retry' = [retry EXCEPT ![Worker] =
                                    NewRetry("connect", Head(main.profiles), note, MaxRetries)]
                    /\ call' = [call EXCEPT ![Worker] =
                                    NewConnectCall(Head(main.profiles), note)]
                    /\ pc' = [pc EXCEPT ![Worker] = "c_gate"]
                    /\ calls' = calls + 1
    /\ UNCHANGED <<now, connection_requests, actions, messages, profiles, delivered, invitations, probe>>

\* SendConnectionRequest run from its entry to its return: the steps of
\* ConnectStep taken together (pageOk: every browser phase succeeded)
SendConnectionRequestRun(w) ==
    /\ pc[w] = "c_gate"
    /\ \E dbOk \in BOOLEAN, pageOk \in BOOLEAN, reqOk \in BOOLEAN, actOk \in BOOLEAN :
          LET n == GetConnectionRequestsSentToday
              f == [call[w] EXCEPT !.requestsToday = n]
              note == IF call[w].note = "" THEN DefaultNote ELSE call[w].note
          IN IF ~dbOk
             THEN /\ Return(w, call[w], "failed to check daily limit")
                  /\ UNCHANGED <<connection_requests, actions, retry>>
             ELSE IF GateDenied(n)
             THEN /\ Return(w, [f EXCEPT !.admit = "denied"],
                            "daily connection request limit reached")
                  /\ UNCHANGED <<connection_requests, actions, retry>>
             ELSE IF ~pageOk
             THEN /\ Return(w, Did([f EXCEPT !.admit = "passed"], "navigate"),
                            "failed to send connection request")
                  /\ UNCHANGED <<connection_requests, actions, retry>>
             ELSE /\ connection_requests' =
                        IF reqOk
                        THEN RecordConnectionRequest(connection_requests,
                                [profile_url |-> call[w].profileURL, note |-> note,
                                 sent_at |-> now])
                        ELSE connection_requests
                  /\ actions' = IF actOk THEN RecordAction(actions, "connection_request")
                                ELSE actions
                  /\ retry' = [retry EXCEPT ![w].recordCalls = @ + 1]
                  /\ Return(w, [f EXCEPT !.admit = "passed", !.note = note,
                                         !.effects = {"navigate", "click", "record"},
                                         !.connectClicked = TRUE, !.dialog = TRUE,
                                         !.sent = TRUE, !.recordCalls = 1,
                                         !.actionCalls = 1], "nil")
    /\ invitations' = IF call'[w].sent
                      THEN [invitations EXCEPT ![DateOf(now)] = @ + 1]
                      ELSE invitations
    /\ UNCHANGED <<now, messages, profiles, delivered, calls, probe, main>>

\* variant: a profile that failed after all retries ends the cycle with an error
CycleAfterSend_Aborts ==
    /\ main.pc = "send"
    /\ pc[Worker] = "idle"
    /\ main' = IF retry[Worker].result = "err"
               THEN [main EXCEPT !.pc = "returned", !.err = TRUE, !.failed = @ + 1]
               ELSE [main EXCEPT !.pc = "profile", !.profiles = Tail(@),
                                 !.requestsSent = @ + 1]
    /\ retry' = [retry EXCEPT ![Worker] = NoRetry]
    /\ UNCHANGED <<now, connection_requests, actions, messages, profiles, delivered, invitations, pc, call, calls, probe>>

\* runAutomationCycle, phase 2, after retryWithBackoff: on an error log and
\* continue with the next profile, else requestsSent++, the delay and, if
\* ShouldTakeBreak(requestsSent), the break
CycleAfterSend ==
    /\ main.pc = "send"
    /\ pc[Worker] = "idle"
    /\ IF retry[Worker].result = "err"
       THEN main' = [main EXCEPT !.pc = "profile", !.profiles = Tail(@),
                                 !.failed = @ + 1, !.breakDuration = 0]
       ELSE \E take \in ShouldTakeBreak(main.requestsSent + 1) :
               \E d \in (IF take THEN GetBreakDuration ELSE {0}) :
                  main' = [main EXCEPT !.pc = "profile", !.profiles = Tail(@),
                                       !.requestsSent = @ + 1, !.breakDuration = d]
    /\ retry' = [retry EXCEPT ![Worker] = NoRetry]
    /\ UNCHANGED <<now, connection_requests, actions, messages, profiles, delivered, invitations, pc, call, calls, probe>>

\* The profile loop alone, for long batches: the search has returned
\* MaxProfiles profiles (numbered), the limit check passes, and
\* retryWithBackoff(SendConnectionRequest) returns nil or an error.
LoopStart ==
    /\ main.pc = "select"
    /\ main' = [main EXCEPT !.pc = "profile", !.cycleCount = 1,
                            !.profiles = [i \in 1..MaxProfiles |-> i]]
    /\ UNCHANGED <<now, connection_requests, actions, messages, profiles, delivered, invitations, pc, call, retry, calls, probe>>

LoopSend ==
    /\ main.pc = "profile"
    /\ main.profiles # <<>>
    /\ pc[Worker] = "idle"
    /\ \E result \in {"nil", "err"} :
          retry' = [retry EXCEPT ![Worker] =
                       [NewRetry("connect", "", "", MaxRetries) EXCEPT !.result = result]]
    /\ main' = [main EXCEPT !.pc = "send"]
    /\ UNCHANGED <<now, connection_requests, actions, messages, profiles, delivered, invitations, pc, call, calls, probe>>

\* runAutomationCycle, phase 3: retryWithBackoff(ProcessNewConnections, 3)
CyclePhase3 ==
    /\ main.pc = "phase3"
    /\ pc[Worker] = "idle"
    /\ main' = [main EXCEPT !.pc = "process"]
    /\ retry' = [retry EXCEPT ![Worker] = NewRetry("process", "", "", MaxRetries)]
    /\ call' = [call EXCEPT ![Worker] = NewProcessCall]
    /\ pc' = [pc EXCEPT ![Worker] = "p_run"]
    /\ UNCHANGED <<now, connection_requests, actions, messages, profiles, delivered, invitations, calls, probe>>

\* storage.GetPendingRequests: accepted = FALSE, ORDER BY sent_at DESC
RECURSIVE SortBySentAtDesc(_)
SortBySentAtDesc(S) ==
    IF S = {} THEN <<>>
    ELSE LET i == CHOOSE i \in S : \A j \in S :
                     \/ connection_requests[i].sent_at > connection_requests[j].sent_at
                     \/ /\ connection_requests[i].sent_at = connection_requests[j].sent_at
                        /\ i <= j
         IN <<connection_requests[i]>> \o SortBySentAtDesc(S \ {i})

GetPendingRequests ==
    SortBySentAtDesc({i \in DOMAIN connection_requests : ~connection_requests[i].accepted})

\* variant: every pending request counts as a new connection, whatever its age
CheckNewConnections_NoAgeFilter == GetPendingRequests

\* CheckNewConnections: the pending requests sent at least 24 hours ago
CheckNewConnections ==
    SelectSeq(GetPendingRequests, LAMBDA r : ~(now - r.sent_at < TicksPerDay))

\* the state of the three tables and of the messages the page has sent
Store == [requests |-> connection_requests, messages |-> messages, actions |-> actions,
          delivered |-> delivered, skipped |-> {}]

\* variant: SendMessage without the look at the message history
RECURSIVE ProcessFrom_NoHistoryCheck(_, _, _, _)
ProcessFrom_NoHistoryCheck(k, conns, out, st) ==
    IF k > Len(conns) THEN st
    ELSE LET url == conns[k].profile_url
             marked == IF out[k].markOk
                       THEN MarkRequestAccepted(st.requests, url)
                       ELSE st.requests
         IN IF now - conns[k].sent_at < DelayAfterAcceptance
            THEN ProcessFrom_NoHistoryCheck(k + 1, conns, out, st)
            ELSE IF out[k].fails # "none"
                 THEN ProcessFrom_NoHistoryCheck(k + 1, conns, out, st)
            ELSE ProcessFrom_NoHistoryCheck(k + 1, conns, out,
                    [requests |-> marked,
                     messages |-> IF out[k].msgOk
                                  THEN RecordMessage(st.messages,
                                          [profile_url |-> url, sent_at |-> now])
                                  ELSE st.messages,
                     actions |-> IF out[k].actOk
                                 THEN RecordAction(st.actions, "message_sent")
                                 ELSE st.actions,
                     delivered |-> [st.delivered EXCEPT ![url] = @ + 1],
                     skipped |-> st.skipped])

\* ProcessNewConnections, the loop over newConnections from the k-th on, with
\* SendMessage run from entry to return; out[k]: what the page and the
\* storage do for the k-th connection.  A connection younger than the delay
\* is skipped; a failed SendMessage is logged and the loop continues; after
\* SendMessage returned nil (sent, or sent before) the request is marked.
RECURSIVE ProcessFrom(_, _, _, _)
ProcessFrom(k, conns, out, st) ==
    IF k > Len(conns) THEN st
    ELSE LET url == conns[k].profile_url
             sentBefore == \E i \in DOMAIN st.messages : st.messages[i].profile_url = url
             marked == IF out[k].markOk
                       THEN [i \in DOMAIN st.requests |->
                               IF st.requests[i].profile_url = url
                               THEN [st.requests[i] EXCEPT !.accepted = TRUE]
                               ELSE st.requests[i]]
                       ELSE st.requests
         IN IF now - conns[k].sent_at < DelayAfterAcceptance
            THEN ProcessFrom(k + 1, conns, out, st)
            ELSE IF out[k].fails = "history" THEN ProcessFrom(k + 1, conns, out, st)
            ELSE IF sentBefore
                 THEN ProcessFrom(k + 1, conns, out,
                         [st EXCEPT !.requests = marked, !.skipped = @ \cup {url}])
            ELSE IF out[k].fails = "page" THEN ProcessFrom(k + 1, conns, out, st)
            ELSE ProcessFrom(k + 1, conns, out,
                    [requests |-> marked,
                     messages |-> IF out[k].msgOk
                                  THEN RecordMessage(st.messages,
                                          [profile_url |-> url, sent_at |-> now])
                                  ELSE st.messages,
                     actions |-> IF out[k].actOk
                                 THEN RecordAction(st.actions, "message_sent")
                                 ELSE st.actions,
                     delivered |-> [st.delivered EXCEPT ![url] = @ + 1],
                     skipped |-> st.skipped])

\* fails: the step of SendMessage that fails (history: storage.HasSentMessage,
\* page: a browser step), or none; msgOk, actOk, markOk: RecordMessage,
\* RecordAction and MarkRequestAccepted succeed
MessageOutcomes ==
    [fails : {"history"}, msgOk : {FALSE}, actOk : {FALSE}, markOk : {FALSE}]
    \cup [fails : {"page"}, msgOk : {FALSE}, actOk : {FALSE}, markOk : BOOLEAN]
    \cup [fails : {"none"}, msgOk : BOOLEAN, actOk : BOOLEAN, markOk : BOOLEAN]

\* ProcessNewConnections run from its entry to its return
ProcessNewConnectionsRun(w) ==
    /\ pc[w] = "p_run"
    /\ \E dbOk \in BOOLEAN, navOk \in BOOLEAN :
          IF ~dbOk \/ (GetPendingRequests # <<>> /\ ~navOk)
          THEN /\ Return(w, call[w], "failed to check new connections")
               /\ UNCHANGED <<connection_requests, actions, messages, delivered>>
          ELSE LET conns == IF GetPendingRequests = <<>> THEN <<>> ELSE CheckNewConnections
               IN \E out \in [1..Len(conns) -> MessageOutcomes] :
                     LET st == ProcessFrom(1, conns, out, Store)
                     IN /\ connection_requests' = st.requests
                        /\ messages' = st.messages
                        /\ actions' = st.actions
                        /\ delivered' = st.delivered
                        /\ Return(w, [call[w] EXCEPT !.skipped = st.skipped], "nil")
    /\ UNCHANGED <<now, profiles, invitations, retry, calls, probe, main>>

\* runAutomationCycle: phase 3 is over (its error is only logged); return nil
CycleReturn ==
    /\ main.pc = "process"
    /\ pc[Worker] = "idle"
    /\ main' = [main EXCEPT !.pc = "returned", !.err = FALSE]
    /\ retry' = [retry EXCEPT ![Worker] = NoRetry]
    /\ UNCHANGED <<now, connection_requests, actions, messages, profiles, delivered, invitations, pc, call, calls, probe>>

\* ------------------------------------------------- pure functions, evaluated
SelectorListLengths ==
    {MainProfileSelectors, StickySelectors, MoreSelectors, ConnectOptionSelectors,
     AddNoteSelectors, SendSelectors, MessageSelectors, MessageFieldSelectors,
     MessageSendSelectors}

\* the admission checks on a count and a limit
LimitProbe ==
    /\ \E currentCount \in 0..MaxArg, limit \in 0..MaxArg :
          probe' = [fn |-> "limits", currentCount |-> currentCount, limit |-> limit,
                    daily |-> CheckDailyLimit(currentCount, limit),
                    hourly |-> CheckHourlyLimit(currentCount, limit),
                    connection |-> connection_CheckDailyLimit(currentCount, limit)]
    /\ UNCHANGED <<now, connection_requests, actions, messages, profiles, delivered, invitations, pc, call, retry, calls, main>>

\* a locator loop over a selector list of the program, on a page that resolves
\* any subset of the list
LocateProbe ==
    /\ \E n \in SelectorListLengths :
          \E resolves \in SUBSET (1..n) : probe' = Located(n, resolves)
    /\ UNCHANGED <<now, connection_requests, actions, messages, profiles, delivered, invitations, pc, call, retry, calls, main>>

\* clickDirectConnect on every combination of primitive outcomes
ClickProbe ==
    /\ \E o \in ClickOutcomes :
          probe' = [fn |-> "click", o |-> o,
                    tried |-> clickDirectConnect(o).tried,
                    err |-> clickDirectConnect(o).err,
                    by |-> clickDirectConnect(o).by]
    /\ UNCHANGED <<now, connection_requests, actions, messages, profiles, delivered, invitations, pc, call, retry, calls, main>>

\* ------------------------------------------------------------ RandomDelay
\* The probes below evaluate a function once, from the initial state: the
\* functions keep no state between calls.
Durations == (0 - MaxArg)..MaxArg

DelayProbe ==
    /\ probe.fn = "none"
    /\ \E min \in Durations, max \in Durations :
          \E d \in RandomDelay(min, max) :
             probe' = [fn |-> "RandomDelay", min |-> min, max |-> max, d |-> d]
    /\ UNCHANGED <<now, connection_requests, actions, messages, profiles, delivered, invitations, pc, call, retry, calls, main>>

\* ------------------------------------------------------------------ typing
\* A text is a sequence of one-character strings. The keystrokes a routine
\* emits are kept in order: op is the call made on the element or keyboard,
\* arg its argument, role the statement of the routine that made the call.
Chars == {"m", "p", " "}

RECURSIVE TextsOfLen(_)
TextsOfLen(n) ==
    IF n = 0 THEN {<<>>}
    ELSE {Append(t, c) : t \in TextsOfLen(n - 1), c \in Chars}

Texts == UNION {TextsOfLen(n) : n \in 0..MaxLen}

\* a note of n characters whose content changes with the position
LongNote(n) == [i \in 1..n |-> IF i % 7 = 0 THEN " " ELSE IF i % 2 = 0 THEN "p" ELSE "m"]

LongNotes == {LongNote(n) : n \in (MaxNoteLength - MaxOver)..(MaxNoteLength + 3 + MaxOver)}

Ellipsis == <<".", ".", ".">>

\* variant: keeps MaxNoteLength characters in front of the ellipsis
Truncate_KeepsAll(note) ==
    IF Len(note) > MaxNoteLength
    THEN SubSeq(note, 1, MaxNoteLength) \o Ellipsis
    ELSE note

\* TypePersonalizedNote: note = note[:MaxNoteLength-3] + "..." when
\* len(note) > MaxNoteLength
Truncate(note) ==
    IF Len(note) > MaxNoteLength
    THEN SubSeq(note, 1, MaxNoteLength - 3) \o Ellipsis
    ELSE note

\* randomTypo of internal/stealth: the neighbours of the key, the character
\* itself when the map has no entry for it
stealth_randomTypo(char) ==
    CASE char = "m" -> {"n", "j", "k"}
      [] char = "p" -> {"o", "l"}
      [] OTHER -> {char}

\* randomTypo of internal/connection
connection_randomTypo(char) ==
    CASE char = "m" -> {"n"}
      [] char = "p" -> {"o"}
      [] OTHER -> {char}

WrongChars == UNION {stealth_randomTypo(c) \cup connection_randomTypo(c) : c \in Chars}

NoTypos(text) == [i \in 1..Len(text) |-> "none"]

\* the outcomes of the typo draws of one run: for each position either no
\* typo or the character randomTypo (typo) returned; texts longer than MaxLen are
\* typed without typos
Injections(text, typo) ==
    IF Len(text) > MaxLen THEN {NoTypos(text)}
    ELSE {inj \in [1..Len(text) -> {"none"} \cup WrongChars] :
             \A i \in 1..Len(text) : inj[i] = "none" \/ inj[i] \in typo[text[i]]}

Input(text, role) == [op |-> "Input", arg |-> text, role |-> role]
Press(key, role) == [op |-> "Press", arg |-> key, role |-> role]

\* string(input.Backspace): the one-character string of the key's code
BackspaceString == "string(input.Backspace)"

\* the value of the field after the keystrokes: Input inserts its text at the
\* end, Press(Backspace) removes the last character. The inserted
\* BackspaceString is a character without glyph: the page keeps it or drops
\* it (keeps), it never removes anything.
KeyEffect(e, value, keeps) ==
    IF e.op = "Press"
    THEN IF e.arg = "Backspace" /\ value # <<>>
         THEN SubSeq(value, 1, Len(value) - 1) ELSE value
    ELSE IF e.arg = BackspaceString /\ ~keeps THEN value
         ELSE Append(value, e.arg)

\* the keystrokes take effect in order: the first half, then the second half
\* on the value the first half left
RECURSIVE FieldAfter(_, _, _)
FieldAfter(events, value, keeps) ==
    IF events = <<>> THEN value
    ELSE IF Len(events) = 1 THEN KeyEffect(events[1], value, keeps)
    ELSE LET h == Len(events) \div 2
             left == FieldAfter(SubSeq(events, 1, h), value, keeps)
         IN IF Len(left) = 0
            THEN FieldAfter(SubSeq(events, h + 1, Len(events)), <<>>, keeps)
            ELSE FieldAfter(SubSeq(events, h + 1, Len(events)), left, keeps)

\* stealth.TypeText, the loop over the characters: typo, Backspace press, then
\* the character itself
RECURSIVE TypeTextFrom(_, _, _)
TypeTextFrom(text, inj, i) ==
    IF i > Len(text) THEN <<>>
    ELSE (IF inj[i] # "none"
          THEN <<Input(inj[i], "typo"), Press("Backspace", "fix")>>
          ELSE <<>>)
         \o <<Input(text[i], "char")>>
         \o TypeTextFrom(text, inj, i + 1)

\* stealth.TypeText(page, selector, text)
TypeText(text, inj, o) ==
    IF ~o.found THEN [err |-> "element not found", typed |-> text, events |-> <<>>]
    ELSE IF ~o.click THEN [err |-> "failed to click element", typed |-> text, events |-> <<>>]
    ELSE [err |-> "nil", typed |-> text, events |-> TypeTextFrom(text, inj, 1)]

\* strings.Split(s, " "): the pieces of s between the spaces, from position i on
RECURSIVE SplitFrom(_, _)
SplitFrom(s, i) ==
    LET spaces == {j \in i..Len(s) : s[j] = " "}
    IN IF spaces = {} THEN <<SubSeq(s, i, Len(s))>>
       ELSE LET j == CHOOSE k \in spaces : \A l \in spaces : k <= l
            IN <<SubSeq(s, i, j - 1)>> \o SplitFrom(s, j + 1)

Split(s) == SplitFrom(s, 1)

\* connection.go TypePersonalizedNote, the loop over the characters of one
\* word; off is the position of the word in the note
RECURSIVE TypeWordFrom(_, _, _, _)
TypeWordFrom(word, inj, off, j) ==
    IF j > Len(word) THEN <<>>
    ELSE (IF inj[off + j] # "none"
          THEN <<Input(inj[off + j], "typo"), Input(BackspaceString, "fix")>>
          ELSE <<>>)
         \o <<Input(word[j], "char")>>
         \o TypeWordFrom(word, inj, off, j + 1)

\* variant: a space is typed after the last word too
RECURSIVE TypeWordsFrom_SpaceAfterLast(_, _, _, _)
TypeWordsFrom_SpaceAfterLast(words, inj, i, off) ==
    IF i > Len(words) THEN <<>>
    ELSE TypeWordFrom(words[i], inj, off, 1)
         \o <<Input(" ", "space")>>
         \o TypeWordsFrom_SpaceAfterLast(words, inj, i + 1, off + Len(words[i]) + 1)

\* connection.go TypePersonalizedNote, the loop over the words: the word, then
\* a space unless it is the last word
RECURSIVE TypeWordsFrom(_, _, _, _)
TypeWordsFrom(words, inj, i, off) ==
    IF i > Len(words) THEN <<>>
    ELSE TypeWordFrom(words[i], inj, off, 1)
         \o (IF i < Len(words) THEN <<Input(" ", "space")>> ELSE <<>>)
         \o TypeWordsFrom(words, inj, i + 1, off + Len(words[i]) + 1)

\* internal/connection/connection.go TypePersonalizedNote(page, note): the
\* errors of Input are not looked at, nothing is read back from the field
connection_TypePersonalizedNote(note, inj, o) ==
    LET typed == Truncate(note)
    IN IF LocatorLoop(NoteFieldSelectors, o.resolves).err
       THEN [err |-> "note field not found", typed |-> typed, events |-> <<>>,
             verified |-> FALSE]
       ELSE IF ~o.click
            THEN [err |-> "failed to click note field", typed |-> typed,
                  events |-> <<>>, verified |-> FALSE]
            ELSE [err |-> "nil", typed |-> typed,
                  events |-> TypeWordsFrom(Split(typed), inj, 1, 0),
                  verified |-> FALSE]

\* variant: a failed read-back of the field is an error
TypePersonalizedNote_Strict(note, o) ==
    LET typed == Truncate(note)
        out(e, entered, verified) ==
            [err |-> e, typed |-> typed, entered |-> entered, verified |-> verified]
    IN IF LocatorLoop(NoteFieldSelectors, o.resolves).err
       THEN out("note field not found after trying all selectors", "no", FALSE)
       ELSE IF ~o.click THEN out("failed to click note field", "no", FALSE)
       ELSE IF ~o.input /\ ~o.js THEN out("failed to enter note text", "no", FALSE)
       ELSE LET by == IF o.input THEN "Input" ELSE "JS"
            IN IF ~o.eval THEN out("could not verify note text", by, FALSE)
               ELSE IF o.value = <<>>
                    THEN out("note text was not entered successfully", by, TRUE)
                    ELSE out("nil", by, TRUE)

\* part_003 TypePersonalizedNote(page, note): Input, else the JavaScript
\* setValue, then the read-back of el.value; o.value is what the field holds
\* after the input attempt
TypePersonalizedNote(note, o) ==
    LET typed == Truncate(note)
        out(e, entered, verified) ==
            [err |-> e, typed |-> typed, entered |-> entered, verified |-> verified]
    IN IF LocatorLoop(NoteFieldSelectors, o.resolves).err
       THEN out("note field not found after trying all selectors", "no", FALSE)
       ELSE IF ~o.click THEN out("failed to click note field", "no", FALSE)
       ELSE IF ~o.input /\ ~o.js THEN out("failed to enter note text", "no", FALSE)
       ELSE LET by == IF o.input THEN "Input" ELSE "JS"
            IN IF ~o.eval THEN out("nil", by, FALSE)
               ELSE IF o.value = <<>>
                    THEN out("note text was not entered successfully", by, TRUE)
                    ELSE out("nil", by, TRUE)

\* stealth.TypeText on every text up to MaxLen and every outcome of the typo draws
TypeTextProbe ==
    /\ probe.fn = "none"
    /\ \E text \in Texts, found \in BOOLEAN, click \in BOOLEAN :
          \E inj \in Injections(text, [c \in Chars |-> stealth_randomTypo(c)]) :
             LET o == [found |-> found, click |-> click]
                 r == TypeText(text, inj, o)
             IN probe' = [fn |-> "TypeText", note |-> text, inj |-> inj, o |-> o,
                          typed |-> r.typed, events |-> r.events, err |-> r.err,
                          field |-> FieldAfter(r.events, <<>>, TRUE)]
    /\ UNCHANGED <<now, connection_requests, actions, messages, profiles, delivered, invitations, pc, call, retry, calls, main>>

\* connection.go TypePersonalizedNote on short notes with typos and on notes
\* around MaxNoteLength
TypeNoteProbe ==
    /\ probe.fn = "none"
    /\ \E note \in Texts \cup LongNotes, click \in BOOLEAN, keeps \in BOOLEAN,
          resolves \in Pages(NoteFieldSelectors) :
          \E inj \in Injections(Truncate(note), [c \in Chars |-> connection_randomTypo(c)]) :
             LET o == [resolves |-> resolves, click |-> click]
                 r == connection_TypePersonalizedNote(note, inj, o)
             IN probe' = [fn |-> "connection.TypePersonalizedNote", note |-> note,
                          inj |-> inj, o |-> o, typed |-> r.typed,
                          events |-> r.events, err |-> r.err,
                          verified |-> r.verified,
                          field |-> FieldAfter(r.events, <<>>, keeps)]
    /\ UNCHANGED <<now, connection_requests, actions, messages, profiles, delivered, invitations, pc, call, retry, calls, main>>

\* part_003 TypePersonalizedNote on notes of every length in range and every
\* outcome of its calls
EnterNoteProbe ==
    /\ probe.fn = "none"
    /\ \E note \in {LongNote(n) : n \in 1..MaxLen} \cup LongNotes,
          click \in BOOLEAN, input \in BOOLEAN,
          js \in BOOLEAN, eval \in BOOLEAN, held \in BOOLEAN,
          resolves \in Pages(NoteFieldSelectors) :
          LET o == [resolves |-> resolves, click |-> click, input |-> input,
                    js |-> js, eval |-> eval,
                    value |-> IF held THEN Truncate(note) ELSE <<>>]
              r == TypePersonalizedNote(note, o)
          IN probe' = [fn |-> "TypePersonalizedNote", note |-> note, o |-> o,
                       typed |-> r.typed, entered |-> r.entered,
                       verified |-> r.verified, err |-> r.err]
    /\ UNCHANGED <<now, connection_requests, actions, messages, profiles, delivered, invitations, pc, call, retry, calls, main>>

\* ------------------------------------------------------------ mouse motion
\* Coordinates are integers; a computed coordinate is kept as an exact
\* fraction <<numerator, denominator>>, so that t = i / (steps - 1) and the
\* powers of t and 1 - t are not rounded.
Points == {[X |-> x, Y |-> y] : x \in 0..MaxCoord, y \in 0..MaxCoord}

\* B(t) = (1-t)^3 P0 + 3 (1-t)^2 t P1 + 3 (1-t) t^2 P2 + t^3 P3 at t = i / d,
\* times d^3
BezierNum(i, d, p0, p1, p2, p3) ==
    (d - i) * (d - i) * (d - i) * p0
       + 3 * (d - i) * (d - i) * i * p1
       + 3 * (d - i) * i * i * p2
       + i * i * i * p3

\* variant: t = i / steps, so t stays below 1
CubicBezierCurve_OpenEnd(start, end, control1, control2, steps) ==
    [k \in 1..steps |->
        [X |-> <<BezierNum(k - 1, steps, start.X, control1.X, control2.X, end.X),
                 steps * steps * steps>>,
         Y |-> <<BezierNum(k - 1, steps, start.Y, control1.Y, control2.Y, end.Y),
                 steps * steps * steps>>]]

\* stealth.CubicBezierCurve: points[i] for i = 0..steps-1 with
\* t = float64(i) / float64(steps-1)
CubicBezierCurve(start, end, control1, control2, steps) ==
    [k \in 1..steps |->
        [X |-> <<BezierNum(k - 1, steps - 1, start.X, control1.X, control2.X, end.X),
                 (steps - 1) * (steps - 1) * (steps - 1)>>,
         Y |-> <<BezierNum(k - 1, steps - 1, start.Y, control1.Y, control2.Y, end.Y),
                 (steps - 1) * (steps - 1) * (steps - 1)>>]]

\* a computed point lies exactly on p
AtPoint(q, p) == q.X[1] = p.X * q.X[2] /\ q.Y[1] = p.Y * q.Y[2]

CurveProbe ==
    /\ probe.fn = "none"
    /\ \E start \in Points, end \in Points, control1 \in Points, control2 \in Points,
          steps \in 2..MaxSteps :
          probe' = [fn |-> "CubicBezierCurve", start |-> start, end |-> end,
                    control1 |-> control1, control2 |-> control2, steps |-> steps,
                    points |-> CubicBezierCurve(start, end, control1, control2, steps)]
    /\ UNCHANGED <<now, connection_requests, actions, messages, profiles, delivered, invitations, pc, call, retry, calls, main>>

\* proto.InputDispatchMouseEvent{Type: MouseMoved, X, Y}.Call(page); role is the
\* statement of MoveMouse that made the call, ok whether Call returned nil
MouseMoved(q, role, ok) == [X |-> q.X, Y |-> q.Y, role |-> role, ok |-> ok]

\* the draws of (rng.Float64()-0.5)*5 for the two coordinates of the overshoot
Overshoots == {<<-2, 2>>, <<0, 0>>, <<2, -1>>}

\* MoveMouse, the loop over pathPoints; failAt is the dispatch whose Call
\* returns an error (0: none)
PathMoves(pathPoints, failAt) ==
    [k \in 1..Len(pathPoints) |-> MouseMoved(pathPoints[k], "path", k # failAt)]

\* variant: the overshoot is not followed by the move back to the target
MoveMouse_NoCorrection(target, start, controlPoints, overshoot, failAt) ==
    LET pathPoints == CubicBezierCurve(start, target, controlPoints[1],
                                       controlPoints[2], MouseSteps)
        n == Len(pathPoints)
    IN [err |-> "nil",
        events |-> PathMoves(pathPoints, failAt) \o
           (IF overshoot = <<>> THEN <<>>
            ELSE <<MouseMoved([X |-> <<target.X + overshoot[1], 1>>,
                               Y |-> <<target.Y + overshoot[2], 1>>],
                              "overshoot", failAt # n + 1)>>)]

\* stealth.MoveMouse(page, targetX, targetY): start is the drawn current
\* position, controlPoints the result of generateControlPoints, overshoot the
\* outcome of the 30% draw (<<>>: no overshoot). The result of every Call is discarded.
MoveMouse(target, start, controlPoints, overshoot, failAt) ==
    LET pathPoints == CubicBezierCurve(start, target, controlPoints[1],
                                       controlPoints[2], MouseSteps)
        n == Len(pathPoints)
    IN [err |-> "nil",
        events |-> PathMoves(pathPoints, failAt) \o
           (IF overshoot = <<>> THEN <<>>
            ELSE <<MouseMoved([X |-> <<target.X + overshoot[1], 1>>,
                               Y |-> <<target.Y + overshoot[2], 1>>],
                              "overshoot", failAt # n + 1),
                   MouseMoved([X |-> <<target.X, 1>>, Y |-> <<target.Y, 1>>],
                              "correct", failAt # n + 2)>>)]

\* MoveMouse on every target and start of the grid; the control points are
\* taken at the ends of the segment
MoveMouseProbe ==
    /\ probe.fn = "none"
    /\ \E target \in Points, start \in Points, overshoot \in {<<>>} \cup Overshoots,
          failAt \in {0, 1, MouseSteps, MouseSteps + 1, MouseSteps + 2} :
          \E control1 \in {start, target}, control2 \in {start, target} :
          /\ failAt > MouseSteps => overshoot # <<>>
          /\ LET r == MoveMouse(target, start, <<control1, control2>>, overshoot, failAt)
             IN probe' = [fn |-> "MoveMouse", target |-> target, start |-> start,
                          controlPoints |-> <<control1, control2>>,
                          overshoot |-> overshoot, failAt |-> failAt,
                          events |-> r.events, err |-> r.err]
    /\ UNCHANGED <<now, connection_requests, actions, messages, profiles, delivered, invitations, pc, call, retry, calls, main>>

\* ------------------------------------------------------- cooldown, reading
\* variant: the first threshold is tested first, so the base stops at 3 minutes
GetCooldownDuration_NoThirdStep(actionsThisHour) ==
    LET baseCooldown == IF actionsThisHour > 10 THEN 3
                        ELSE IF actionsThisHour > 15 THEN 5
                        ELSE 2
    IN RandomDelay(baseCooldown, baseCooldown * 2)

\* stealth.GetCooldownDuration, in minutes: the values RandomDelay can return
GetCooldownDuration(actionsThisHour) ==
    LET baseCooldown == IF actionsThisHour > 15 THEN 5
                        ELSE IF actionsThisHour > 10 THEN 3
                        ELSE 2
    IN RandomDelay(baseCooldown, baseCooldown * 2)

CooldownProbe ==
    /\ probe.fn = "none"
    /\ \E actionsThisHour \in (0 - 1)..MaxHourly :
          \E d \in GetCooldownDuration(actionsThisHour) :
             probe' = [fn |-> "GetCooldownDuration",
                       actionsThisHour |-> actionsThisHour, d |-> d]
    /\ UNCHANGED <<now, connection_requests, actions, messages, profiles, delivered, invitations, pc, call, retry, calls, main>>

\* Go's integer division and float-to-integer conversion: towards zero
Quot(a, b) == IF a >= 0 THEN a \div b ELSE 0 - ((0 - a) \div b)

\* stealth.ReadingDelay, in milliseconds. draw / JitterSteps is the value of
\* rng.Float64(), so randomFactor = 1 + (2 draw / JitterSteps - 1) * 3 / 10 and
\* the result is readingTimeMs * randomFactor cut to a whole number:
\*   words * (60000 / 225) * (10 JitterSteps + 6 draw - 3 JitterSteps)
\*                                           / (10 JitterSteps)
ReadingDelay(contentLength, draw) ==
    LET words == Quot(contentLength, 5)
    IN Quot(words * 60000 * (7 * JitterSteps + 6 * draw), 225 * 10 * JitterSteps)

ReadingProbe ==
    /\ probe.fn = "none"
    /\ \E contentLength \in (0 - MaxContent)..MaxContent, draw \in 0..(JitterSteps - 1) :
          probe' = [fn |-> "ReadingDelay", contentLength |-> contentLength,
                    draw |-> draw, d |-> ReadingDelay(contentLength, draw)]
    /\ UNCHANGED <<now, connection_requests, actions, messages, profiles, delivered, invitations, pc, call, retry, calls, main>>

\* ------------------------------------------ phase 3 of the cycles taken alone
\* phase 2 of a cycle: a SendConnectionRequest has sent its request and
\* recorded it (storage.RecordConnectionRequest, SentAt: time.Now())
FollowUpRecord ==
    /\ main.pc \in {"select", "returned"}
    /\ Len(connection_requests) < MaxSeed
    /\ \E url \in Urls :
          connection_requests' = RecordConnectionRequest(connection_requests,
              [profile_url |-> url, note |-> DefaultNote, sent_at |-> now])
    /\ UNCHANGED <<now, actions, messages, profiles, delivered, invitations, pc, call, retry, calls, probe, main>>

\* the next cycle of the main loop has come to its phase 3
FollowUpPhase3 ==
    /\ main.pc \in {"select", "returned"}
    /\ main.cycleCount < MaxFollowRuns
    /\ main' = [main EXCEPT !.pc = "phase3", !.cycleCount = @ + 1]
    /\ UNCHANGED <<now, connection_requests, actions, messages, profiles, delivered, invitations, pc, call, retry, calls, probe>>

\* ------------------------------------------- the storage package taken alone
\* time passes between two storage operations: one tick, or more than the
\* retention of the actions table
StoreTick ==
    /\ calls < MaxStoreOps
    /\ calls' = calls + 1
    /\ \E d \in {1, (RetentionDays + 1) * TicksPerDay} : now' = now + d
    /\ UNCHANGED <<connection_requests, actions, messages, profiles, delivered, invitations, pc, call, retry, probe, main>>

\* storage.RecordConnectionRequest(req), req.SentAt = time.Now()
StoreRecordConnectionRequest ==
    /\ calls < MaxStoreOps
    /\ calls' = calls + 1
    /\ \E url \in Urls :
          connection_requests' = RecordConnectionRequest(connection_requests,
              [profile_url |-> url, note |-> "", sent_at |-> now])
    /\ UNCHANGED <<now, actions, messages, profiles, delivered, invitations, pc, call, retry, probe, main>>

\* storage.MarkRequestAccepted(profileURL)
StoreMarkRequestAccepted ==
    /\ calls < MaxStoreOps
    /\ calls' = calls + 1
    /\ \E url \in Urls :
          connection_requests' = MarkRequestAccepted(connection_requests, url)
    /\ UNCHANGED <<now, actions, messages, profiles, delivered, invitations, pc, call, retry, probe, main>>

\* storage.RecordAction(actionType)
StoreRecordAction ==
    /\ calls < MaxStoreOps
    /\ calls' = calls + 1
    /\ \E actionType \in ActionTypes : actions' = RecordAction(actions, actionType)
    /\ UNCHANGED <<now, connection_requests, messages, profiles, delivered, invitations, pc, call, retry, probe, main>>

\* storage.RecordMessage(msg), msg.SentAt = time.Now()
StoreRecordMessage ==
    /\ calls < MaxStoreOps
    /\ calls' = calls + 1
    /\ \E url \in Urls :
          messages' = RecordMessage(messages, [profile_url |-> url, sent_at |-> now])
    /\ UNCHANGED <<now, connection_requests, actions, profiles, delivered, invitations, pc, call, retry, probe, main>>

\* storage.SaveProfile(profile)
StoreSaveProfile ==
    /\ calls < MaxStoreOps
    /\ calls' = calls + 1
    /\ \E url \in Urls : profiles' = SaveProfile(profiles, url)
    /\ UNCHANGED <<now, connection_requests, actions, messages, delivered, invitations, pc, call, retry, probe, main>>

\* storage.CleanupOldActions(); probe keeps the number of rows deleted
StoreCleanupOldActions ==
    /\ calls < MaxStoreOps
    /\ calls' = calls + 1
    /\ actions' = CleanupOldActions(actions)
    /\ probe' = [fn |-> "CleanupOldActions",
                 deleted |-> Len(actions) - Len(CleanupOldActions(actions))]
    /\ UNCHANGED <<now, connection_requests, messages, profiles, delivered, invitations, pc, call, retry, main>>

\* ------------------------------------------------------------- auth.Login
\* Login(browser, email, password) on entry
NewLoginCall ==
    [operation |-> "login",
     sessionLoaded |-> FALSE,  \* LoadSession returned nil
     sessionValid |-> FALSE,   \* isLoggedIn was true on the feed page of the loaded session
     confirmed |-> FALSE,      \* the last isLoggedIn of this call returned true
     attempt |-> 1,            \* the loop variable of the fresh login
     attempts |-> <<>>,        \* what every performLogin returned, in order
     backoffs |-> <<>>,        \* seconds slept between the attempts, in order
     err |-> "pending"]        \* the returned error: "nil" or the failure

\* the errors LoadSession returns
LoadSessionErrors ==
    {"no saved session found", "failed to read cookies file",
     "failed to unmarshal cookies", "failed to set cookies"}

\* the errors performLogin returns
PerformLoginErrors ==
    {"failed to navigate to login page", "failed to wait for page load",
     "email field not found", "failed to click email field", "failed to type email",
     "password field not found", "failed to click password field",
     "sign in button not found", "failed to click sign in button"}

\* main: auth.Login(browser, cfg.LinkedIn.Email, cfg.LinkedIn.Password), once,
\* before the automation loop
InvokeLogin(w) ==
    /\ pc[w] = "idle"
    /\ calls = 0
    /\ calls' = 1
    /\ call' = [call EXCEPT ![w] = NewLoginCall]
    /\ pc' = [pc EXCEPT ![w] = "l_load"]
    /\ UNCHANGED <<now, connection_requests, actions, messages, profiles, delivered, invitations, retry, probe, main>>

\* Login: "Try to load existing session first"; browser.MustPage panics
LoadSession(w) ==
    /\ pc[w] = "l_load"
    /\ \E mustOk \in BOOLEAN, e \in LoadSessionErrors \cup {"nil"} :
          IF e = "nil" /\ ~mustOk
          THEN Goto(w, [call[w] EXCEPT !.err = "panic"], "l_panic")
          ELSE IF e = "nil"
               THEN Goto(w, [call[w] EXCEPT !.sessionLoaded = TRUE], "l_validate")
               ELSE Goto(w, call[w], "l_attempt")
    /\ UNCHANGED <<now, connection_requests, actions, messages, profiles, delivered, invitations, retry, calls, probe, main>>

\* Login: "Verify session is still valid": MustPage, MustNavigate, MustWaitLoad
\* (each panics on failure), then isLoggedIn(page)
ValidateSession(w) ==
    /\ pc[w] = "l_validate"
    /\ \E mustOk \in BOOLEAN, loggedIn \in BOOLEAN :
          IF ~mustOk THEN Goto(w, [call[w] EXCEPT !.err = "panic"], "l_panic")
          ELSE IF loggedIn
               THEN Goto(w, [call[w] EXCEPT !.sessionValid = TRUE, !.confirmed = TRUE,
                                            !.err = "nil"], "l_ret")
               ELSE Goto(w, call[w], "l_attempt")
    /\ UNCHANGED <<now, connection_requests, actions, messages, profiles, delivered, invitations, retry, calls, probe, main>>

\* performLogin(browser, email, password): e is the first step that fails, or
\* "nil"; mustOk: MustPage and MustInput do not panic; loggedIn: what
\* isLoggedIn returns.  A failed verification is only logged ("Login
\* verification failed, but continuing anyway"), as are the cookie errors.
performLogin(e, mustOk, loggedIn) ==
    IF e # "nil" THEN [err |-> e, confirmed |-> FALSE]
    ELSE IF ~mustOk THEN [err |-> "panic", confirmed |-> FALSE]
    ELSE [err |-> "nil", confirmed |-> loggedIn]

\* Login: one iteration of "for attempt := 1; attempt <= MaxLoginRetries; attempt++"
LoginAttempt(w) ==
    /\ pc[w] = "l_attempt"
    /\ \E e \in PerformLoginErrors \cup {"nil"}, mustOk \in BOOLEAN, loggedIn \in BOOLEAN :
          LET r == performLogin(e, mustOk, loggedIn)
              f == [call[w] EXCEPT !.attempts = Append(@, r.err), !.confirmed = r.confirmed]
          IN IF r.err = "panic" THEN Goto(w, [f EXCEPT !.err = "panic"], "l_panic")
             ELSE IF r.err = "nil" THEN Goto(w, [f EXCEPT !.err = "nil"], "l_ret")
             ELSE IF call[w].attempt < MaxLoginRetries
                  THEN Goto(w, [f EXCEPT !.attempt = @ + 1,
                                         !.backoffs = Append(@, 2^(call[w].attempt))],
                            "l_attempt")
                  ELSE Goto(w, [f EXCEPT !.attempt = @ + 1,
                                         !.err = "login failed after 3 attempts"], "l_ret")
    /\ UNCHANGED <<now, connection_requests, actions, messages, profiles, delivered, invitations, retry, calls, probe, main>>

\* main: Login has returned: log.Fatal on an error, else the automation loop
LoginReturn(w) ==
    /\ pc[w] = "l_ret"
    /\ pc' = [pc EXCEPT ![w] = IF call[w].err = "nil" THEN "l_done" ELSE "l_fatal"]
    /\ UNCHANGED <<now, connection_requests, actions, messages, profiles, delivered, invitations, call, retry, calls, probe, main>>

\* ------------------------------------------------------------ specification
Init ==
    /\ now = 0
    /\ connection_requests = <<>>
    /\ actions = <<>>
    /\ messages = <<>>
    /\ profiles = {}
    /\ delivered = [u \in Urls |-> 0]
    /\ invitations = [d \in Days |-> 0]
    /\ pc = [w \in Procs |-> "idle"]
    /\ call = [w \in Procs |-> NoCall]
    /\ retry = [w \in Procs |-> NoRetry]
    /\ calls = 0
    /\ probe = [fn |-> "none"]
    /\ main = MainStart

\* the steps of one worker running the connect operation under the retry wrapper
ConnectStep(w) ==
    \/ InvokeConnect(w)
    \/ Gate(w)
    \/ Navigate(w)
    \/ LocateConnect(w)
    \/ ClickDirect(w)
    \/ ClickMore(w)
    \/ VerifyDialog(w)
    \/ AddNote(w)
    \/ ClickSend(w)
    \/ Record(w)
    \/ RetryReturn(w)

\* the steps of one worker running the message operation
MessageStep(w) ==
    \/ InvokeMessage(w)
    \/ CheckHistory(w)
    \/ MsgNavigate(w)
    \/ clickMessageButton(w)
    \/ typeMessage(w)
    \/ clickSendMessageButton(w)
    \/ MsgRecord(w)
    \/ MessageReturn(w)

\* the design: one worker, one operation at a time
Next ==
    \/ Tick
    \/ ConnectStep(Worker)

Spec == Init /\ [][Next]_vars

\* the message operation, one worker
NextMsg ==
    \/ Tick
    \/ MessageStep(Worker)

SpecMsg == Init /\ [][NextMsg]_vars

\* two invocations of the connect operation against the same store
NextConc == \E w \in Procs : ConnectStep(w)

SpecConc == Init /\ [][NextConc]_vars

\* retryWithBackoff around any operation
NextRetry ==
    \/ Tick
    \/ InvokeRetry(Worker)
    \/ OpReturns(Worker)
    \/ RetryReturn(Worker)

SpecRetry == Init /\ [][NextRetry]_vars

\* the main loop around any runAutomationCycle
NextMain ==
    \/ Signal
    \/ MainSelect
    \/ CycleReturns
    \/ MainAfterCycle
    \/ MainWake

SpecMain == Init /\ [][NextMain]_vars

\* the main loop around runAutomationCycle
NextCycle ==
    \/ Tick
    \/ CycleSelect
    \/ CycleSearch
    \/ CycleProfile
    \/ SendConnectionRequestRun(Worker)
    \/ RetryReturn(Worker)
    \/ CycleAfterSend
    \/ CyclePhase3
    \/ ProcessNewConnectionsRun(Worker)
    \/ CycleReturn
    \/ MainAfterCycle
    \/ MainWake

SpecCycle == Init /\ [][NextCycle]_vars

\* the profile loop of runAutomationCycle on a long batch
NextLoop ==
    \/ LoopStart
    \/ LoopSend
    \/ CycleAfterSend

SpecLoop == Init /\ [][NextLoop]_vars

\* the storage operations in any order, with the clock
NextStore ==
    \/ StoreTick
    \/ StoreRecordConnectionRequest
    \/ StoreMarkRequestAccepted
    \/ StoreRecordAction
    \/ StoreRecordMessage
    \/ StoreSaveProfile
    \/ StoreCleanupOldActions

SpecStore == Init /\ [][NextStore]_vars

\* phase 3 of successive cycles, with the requests recorded in between
NextFollowUp ==
    \/ Tick
    \/ FollowUpRecord
    \/ FollowUpPhase3
    \/ CyclePhase3
    \/ ProcessNewConnectionsRun(Worker)
    \/ RetryReturn(Worker)
    \/ CycleReturn

SpecFollowUp == Init /\ [][NextFollowUp]_vars

\* the search and the request phase of successive cycles, with the search
\* followed page by page
NextSearch ==
    \/ SearchNextCycle
    \/ SearchRun
    \/ CycleProfile
    \/ SendConnectionRequestRun(Worker)
    \/ RetryReturn(Worker)
    \/ CycleAfterSend
    \/ SearchPhase3

SpecSearch == Init /\ [][NextSearch]_vars

\* the pure functions on bounded inputs
NextPure ==
    \/ LimitProbe
    \/ LocateProbe
    \/ ClickProbe

SpecPure == Init /\ [][NextPure]_vars

\* RandomDelay and the typing routines on bounded inputs
NextType ==
    \/ DelayProbe
    \/ TypeTextProbe
    \/ TypeNoteProbe
    \/ EnterNoteProbe

SpecType == Init /\ [][NextType]_vars

\* the mouse path and its dispatch on bounded inputs
NextMotion ==
    \/ CurveProbe
    \/ MoveMouseProbe

SpecMotion == Init /\ [][NextMotion]_vars

\* the cooldown and the reading delay on bounded inputs
NextTiming ==
    \/ CooldownProbe
    \/ ReadingProbe

SpecTiming == Init /\ [][NextTiming]_vars

\* auth.Login at the start of main
NextLogin ==
    \/ InvokeLogin(Worker)
    \/ LoadSession(Worker)
    \/ ValidateSession(Worker)
    \/ LoginAttempt(Worker)
    \/ LoginReturn(Worker)

SpecLogin == Init /\ [][NextLogin]_vars

\* ------------------------------------------------------------- properties
InConnect(w) == call[w].operation = "connect"
InMessage(w) == call[w].operation = "message"

\* connection requests recorded with a sent_at of day d
RequestsOfDay(d) ==
    Cardinality({i \in DOMAIN connection_requests :
                    DateOf(connection_requests[i].sent_at) = d})

\* C1: with calls made one after another, the connection requests recorded for
\* the current calendar day never exceed DailyLimit, and neither do those of
\* any other day.
C1_RequestsTodayWithinLimit ==
    /\ GetConnectionRequestsSentToday <= DailyLimit
    /\ \A d \in Days : RequestsOfDay(d) <= DailyLimit

\* the call that consumed the last slot of the day has recorded its request
C1_Witness ==
    /\ InConnect(Worker)
    /\ call[Worker].requestsToday = DailyLimit - 1
    /\ call[Worker].recordCalls = 1
    /\ GetConnectionRequestsSentToday = DailyLimit

\* C2: a call of SendConnectionRequest performs a side-effecting step
\* (navigation, click, typing, record) only after its own daily-limit check
\* passed on a count below the limit; a call whose check read a count at or
\* above the limit is denied and has returned with no side effect.
C2_NoEffectWithoutAdmission ==
    \A w \in Procs :
        InConnect(w) =>
            /\ call[w].effects # {} => call[w].admit = "passed"
            /\ call[w].admit = "passed" => call[w].requestsToday < DailyLimit
            /\ call[w].requestsToday >= DailyLimit =>
                  /\ call[w].admit = "denied"
                  /\ pc[w] = "op_ret"
                  /\ call[w].err # "nil"
                  /\ call[w].effects = {}
            /\ call[w].admit = "denied" => call[w].requestsToday >= DailyLimit

\* a call found the limit reached and returned without a side effect
C2_Witness ==
    /\ InConnect(Worker)
    /\ pc[Worker] = "op_ret"
    /\ call[Worker].admit = "denied"
    /\ call[Worker].requestsToday = DailyLimit
    /\ call[Worker].effects = {}

\* C3: a call of SendConnectionRequest that returns nil has invoked
\* RecordConnectionRequest and RecordAction exactly once each, a call that
\* returns an error has invoked neither, and the attempts of one
\* retryWithBackoff invoke RecordConnectionRequest at most once in total:
\* once when the wrapper returns nil, never when it returns an error.
C3_RecordOncePerSuccess ==
    \A w \in Procs :
        /\ InConnect(w) =>
              /\ call[w].recordCalls <= 1
              /\ call[w].actionCalls = call[w].recordCalls
              /\ call[w].recordCalls = 1 => pc[w] = "op_ret" /\ call[w].err = "nil"
              /\ pc[w] = "op_ret" /\ call[w].err = "nil" =>
                    call[w].recordCalls = 1 /\ call[w].actionCalls = 1
              /\ pc[w] = "op_ret" /\ call[w].err # "nil" =>
                    call[w].recordCalls = 0 /\ call[w].actionCalls = 0
        /\ retry[w].operation = "connect" =>
              /\ retry[w].recordCalls <= 1
              /\ retry[w].result = "nil" => retry[w].recordCalls = 1
              /\ retry[w].result = "err" => retry[w].recordCalls = 0

\* the third attempt succeeded after two failed ones and recorded once
C3_Witness ==
    /\ retry[Worker].operation = "connect"
    /\ retry[Worker].result = "nil"
    /\ retry[Worker].attempt = MaxRetries
    /\ retry[Worker].recordCalls = 1
    /\ Len(connection_requests) = 1

C5_OneSlotOneAdmission ==
    \A v, w \in Procs :
        (/\ v # w
         /\ InConnect(v) /\ InConnect(w)
         /\ call[v].admit = "passed" /\ call[w].admit = "passed")
        => ~(call[v].requestsToday = DailyLimit - 1 /\ call[w].requestsToday = DailyLimit - 1)

\* C6 as stated: a call denied by the daily limit returns nil (a clean end, not a failure)
C6_DenialReturnsNil ==
    \A w \in Procs :
        InConnect(w) /\ pc[w] = "op_ret" /\ call[w].admit = "denied"
            => call[w].err = "nil"

C6_DenialIsError ==
    \A w \in Procs :
        InConnect(w) /\ call[w].admit = "denied" =>
            /\ pc[w] = "op_ret"
            /\ call[w].err = "daily connection request limit reached"
            /\ call[w].effects = {}
            /\ call[w].recordCalls = 0

C6_DenialStep ==
    \A w \in Procs :
        (pc[w] = "op_ret" /\ call[w].admit = "denied" /\ pc'[w] # "op_ret") =>
            IF retry[w].attempt < MaxRetries
            THEN /\ pc'[w] = "c_gate"
                 /\ retry'[w].attempt = retry[w].attempt + 1
                 /\ retry'[w].backoffs = Append(retry[w].backoffs, Pow2(retry[w].attempt))
            ELSE /\ pc'[w] = "idle"
                 /\ retry'[w].result = "err"

\* C6 (amended): a call denied by the daily limit returns the error "daily
\* connection request limit reached", having performed no side effect and no
\* record; retryWithBackoff treats it as a failure like any other: below the
\* third attempt it sleeps 2^attempt seconds and calls the operation again,
\* and on the third attempt it returns an error.
C6_DenialIsRetriedAsFailure == [](C6_DenialIsError) /\ [][C6_DenialStep]_vars

\* the third attempt of one retryWithBackoff is denied after two backoffs
C6_Witness ==
    /\ InConnect(Worker)
    /\ pc[Worker] = "op_ret"
    /\ call[Worker].admit = "denied"
    /\ retry[Worker].attempt = MaxRetries
    /\ retry[Worker].backoffs = <<2, 4>>
    /\ GetConnectionRequestsSentToday = DailyLimit

\* C7: a call of SendMessage performs a side-effecting step only after a
\* rate-limit check of the same call passed.
C7_MessageAdmittedBeforeEffects ==
    \A w \in Procs :
        InMessage(w) /\ call[w].effects # {} => call[w].admit = "passed"

\* C8: when the connect dialog is not observed after the connect click, the
\* call returns an error, the Send button is not clicked and nothing is recorded.
C8_NoDialogNoSend ==
    \A w \in Procs :
        (/\ InConnect(w)
         /\ call[w].connectClicked
         /\ ~call[w].dialog
         /\ pc[w] # "c_verify")
        => /\ pc[w] = "op_ret"
           /\ call[w].err = "connect dialog did not appear after click"
           /\ ~call[w].sent
           /\ ~call[w].noteEntered
           /\ call[w].recordCalls = 0
           /\ call[w].actionCalls = 0
           /\ "record" \notin call[w].effects

\* the connect click was made, no dialog followed, and the call returned its error
C8_Witness ==
    /\ InConnect(Worker)
    /\ pc[Worker] = "op_ret"
    /\ call[Worker].connectClicked
    /\ ~call[Worker].dialog
    /\ call[Worker].err = "connect dialog did not appear after click"
    /\ connection_requests = <<>>

\* the smallest selector of a non-empty set
FirstOf(S) == CHOOSE k \in S : \A j \in S : k <= j

\* C9: a locator loop tries the selectors in list order and stops at the first
\* that resolves, whose element it uses; it reports not-found exactly when every
\* selector of the list failed, having tried them all.
C9_FirstResolvingSelector ==
    probe.fn = "locate" =>
        /\ \A k \in DOMAIN probe.tried : probe.tried[k] = k
        /\ probe.err <=> probe.resolves = {}
        /\ probe.err => Len(probe.tried) = probe.n /\ probe.found = 0
        /\ ~probe.err =>
              /\ probe.found = FirstOf(probe.resolves)
              /\ Len(probe.tried) = probe.found

\* two selectors resolve, the earlier one is used and the later one is not tried
C9_Witness ==
    /\ probe.fn = "locate"
    /\ probe.n = SendSelectors
    /\ probe.resolves = {3, 5}
    /\ probe.found = 3
    /\ probe.tried = <<1, 2, 3>>
    /\ ~probe.err

ClickMethods == <<"normal", "js", "coord">>

\* C10: clickDirectConnect attempts the normal click, then the JavaScript
\* click, then the coordinate click, in that order; it returns nil at the first
\* method that succeeds, trying none after it, and returns an error only after
\* all three were attempted and failed.
C10_ClickMethodsInOrder ==
    probe.fn = "click" =>
        LET o == probe.o
            coordOk == o.shape /\ o.move /\ o.cclick
            k == Len(probe.tried)
        IN /\ k \in 1..3
           /\ probe.tried = SubSeq(ClickMethods, 1, k)
           /\ probe.err <=> ~(o.normal \/ o.js \/ coordOk)
           /\ probe.err => k = 3 /\ probe.by = "none"
           /\ ~probe.err => probe.by = probe.tried[k]
           /\ k = 1 <=> o.normal
           /\ k = 2 <=> ~o.normal /\ o.js
           /\ k = 3 <=> ~o.normal /\ ~o.js

\* the normal and the JavaScript click fail and the coordinate click succeeds
C10_Witness ==
    /\ probe.fn = "click"
    /\ ~probe.o.normal /\ ~probe.o.js
    /\ probe.tried = ClickMethods
    /\ probe.by = "coord"
    /\ ~probe.err

\* the attempt in progress is the k-th invocation of the operation
C11_RetryShape ==
    \A w \in Procs :
        retry[w].operation # "none" =>
            LET r == retry[w]
            IN /\ r.attempt \in 1..r.maxRetries
               /\ Len(r.backoffs) = r.attempt - 1
               /\ \A k \in DOMAIN r.backoffs : r.backoffs[k] = 2^k
               /\ r.result = "err" => r.attempt = r.maxRetries /\ r.lastErr
               /\ r.result = "running" => pc[w] # "idle"
               /\ r.result # "running" => pc[w] = "idle"

C11_RetryStep ==
    \A w \in Procs :
        (pc[w] = "op_ret" /\ pc'[w] # "op_ret") =>
            LET r == retry[w]
            IN IF call[w].err = "nil"
               THEN /\ pc'[w] = "idle"
                    /\ retry'[w] = [r EXCEPT !.result = "nil"]
               ELSE IF r.attempt < r.maxRetries
                    THEN /\ pc'[w] = EntryOf(r.operation)
                         /\ retry'[w].attempt = r.attempt + 1
                         /\ retry'[w].backoffs = Append(r.backoffs, 2^(r.attempt))
                         /\ retry'[w].result = "running"
                    ELSE /\ pc'[w] = "idle"
                         /\ retry'[w].backoffs = r.backoffs
                         /\ retry'[w].attempt = r.attempt
                         /\ retry'[w].result = "err"

\* C11: retryWithBackoff(op, n), n >= 1, invokes op at most n times; it
\* returns nil at the first attempt that returns nil, invoking op no more;
\* after the k-th failed attempt, k < n, it sleeps 2^k seconds and invokes op
\* again; after the n-th failed attempt it does not sleep and returns an
\* error, which it returns in no other case.
C11_RetryWithBackoff == [](C11_RetryShape) /\ [][C11_RetryStep]_vars

\* all n = MaxN attempts failed: n invocations, n - 1 sleeps, an error returned
C11_Witness ==
    /\ retry[Worker].operation = "op"
    /\ retry[Worker].maxRetries = MaxN
    /\ retry[Worker].attempt = MaxN
    /\ Len(retry[Worker].backoffs) = MaxN - 1
    /\ retry[Worker].result = "err"

C12_CycleShape ==
    /\ main.pc = "returned" => ~main.err
    /\ main.pc \in {"profile", "send", "phase3", "process", "returned"} =>
          main.requestsSent + main.failed <= MaxCalls

C12_CycleStep ==
    /\ (main.pc = "send" /\ main'.pc # "send") =>
          /\ main'.pc = "profile"
          /\ main'.profiles = Tail(main.profiles)
          /\ IF retry[Worker].result = "err"
             THEN /\ main'.requestsSent = main.requestsSent
                  /\ main'.failed = main.failed + 1
             ELSE /\ main'.requestsSent = main.requestsSent + 1
                  /\ main'.failed = main.failed
    /\ (main'.pc = "returned" /\ main.pc # "returned") => main.pc = "process"
    /\ (main'.pc = "phase3" /\ main.pc # "phase3") => main.pc = "profile"

\* C12: in runAutomationCycle, when retryWithBackoff(SendConnectionRequest)
\* returns an error for a profile, the loop moves on to the next profile with
\* requestsSent unchanged; the cycle is left only through phase 3, and it
\* returns nil.
C12_FailedProfileDoesNotAbort == [](C12_CycleShape) /\ [][C12_CycleStep]_vars

\* the first profile was given up after all retries and the second one was sent
C12_Witness ==
    /\ main.pc = "send"
    /\ main.failed = 1
    /\ main.requestsSent = 0
    /\ pc[Worker] = "idle"
    /\ retry[Worker].result = "nil"
    /\ Len(connection_requests) = 1

\* C13: each failed cycle that follows a failed cycle sleeps twice the
\* backoff of the one before.
C13_BackoffDoubles ==
    [][(main.pc = "returned" /\ main.err /\ main.streak >= 1 /\ main'.pc = "sleep")
          => main'.backoff = 2 * main.backoff]_vars

\* C14: no failure inside an automation cycle terminates the process.
C14_NoFailureTerminates == main.pc # "crashed"

C15_SignalStep ==
    /\ (main.pc = "select" /\ main.sig) =>
          /\ main'.cycleCount = main.cycleCount
          /\ main'.pc \in {"select", "exited"}
    /\ (main'.pc = "exited" /\ main.pc # "exited") => main.pc = "select" /\ main.sig
    /\ (~main.sig /\ main'.sig) => main' = [main EXCEPT !.sig = TRUE]
    /\ (main.sig /\ ~main'.sig) => main'.pc = "exited"

\* C15: with a signal pending at the head of a loop iteration, main starts no
\* cycle and returns; main returns in no other way; a signal that arrives
\* during a cycle or a sleep changes nothing but the channel, stays pending,
\* and is taken at the next head of the loop.
C15_SignalHaltsAtLoopHead ==
    [](main.pc = "exited" => ~main.sig) /\ [][C15_SignalStep]_vars

\* two iterations ran to their end, then the pending signal ended the loop
C15_Witness ==
    /\ main.pc = "exited"
    /\ main.cycleCount = 2
    /\ ~main.sig

Typed == probe.fn \in {"TypeText", "connection.TypePersonalizedNote"} /\ probe.err = "nil"

\* C16: in the character-by-character routines the keystroke after every
\* injected wrong character is a press of Backspace, and at the end the field
\* holds the text without any typo.
C16_TypoImmediatelyDeleted ==
    Typed =>
       /\ \A k \in 1..Len(probe.events) :
             probe.events[k].role = "typo" =>
                /\ k < Len(probe.events)
                /\ probe.events[k + 1].op = "Press"
                /\ probe.events[k + 1].arg = "Backspace"
       /\ probe.field = probe.typed

IsKey(e) == e.role \in {"char", "space"}
IsSpace(e) == e.role = "space"
Keys(events) == [k \in 1..Len(SelectSeq(events, IsKey)) |-> SelectSeq(events, IsKey)[k].arg]

RECURSIVE Join(_)
Join(words) ==
    IF Len(words) = 1 THEN words[1]
    ELSE words[1] \o <<" ">> \o Join(Tail(words))

\* C17: the keystrokes other than the typo and its correction, in order, are
\* the text (the truncated note when the note is over MaxNoteLength); the
\* word routine types one space after every word but the last, and the words,
\* joined by single spaces, are the text.
C17_KeystrokesAreTheText ==
    Typed =>
       /\ probe.typed = (IF probe.fn = "TypeText" THEN probe.note ELSE Truncate(probe.note))
       /\ Keys(probe.events) = probe.typed
       /\ probe.fn = "connection.TypePersonalizedNote" =>
             /\ Len(SelectSeq(probe.events, IsSpace)) = Len(Split(probe.typed)) - 1
             /\ \A k \in 1..Len(probe.events) :
                   (probe.events[k].arg = " " /\ probe.events[k].role # "typo")
                      <=> IsSpace(probe.events[k])
             /\ Join(Split(probe.typed)) = probe.typed

\* two words typed by the word routine, with a typo drawn at the first character
C17_Witness ==
    /\ probe.fn = "connection.TypePersonalizedNote"
    /\ probe.err = "nil"
    /\ probe.note = <<"m", " ", "p">>
    /\ probe.inj[1] = "n"
    /\ Len(probe.events) = 5

NoteRoutine == probe.fn \in {"connection.TypePersonalizedNote", "TypePersonalizedNote"}

C19_NilOnlyAfterConfirmation ==
    /\ (NoteRoutine /\ probe.err = "nil") => probe.verified
    /\ (probe.fn = "TypePersonalizedNote" /\ probe.err = "nil") => probe.o.value # <<>>
    /\ (probe.fn = "TypePersonalizedNote" /\ probe.entered # "no" /\ probe.o.value = <<>>)
          => probe.err # "nil"

\* C20: RandomDelay(min, max) lies between min and max when min <= max and is
\* min when min >= max.
C20_RandomDelayInRange ==
    probe.fn = "RandomDelay" =>
       /\ probe.min <= probe.max => probe.min <= probe.d /\ probe.d <= probe.max
       /\ probe.min >= probe.max => probe.d = probe.min

\* the largest value drawn for a proper interval
C20_Witness ==
    /\ probe.fn = "RandomDelay"
    /\ probe.min = 2
    /\ probe.max = 5
    /\ probe.d = 4

\* C21: CubicBezierCurve with a sample count n >= 2 returns n points, the
\* first of which is start and the last of which is end.
C21_CurveEndpoints ==
    (probe.fn = "CubicBezierCurve" /\ probe.steps >= 2) =>
       /\ Len(probe.points) = probe.steps
       /\ AtPoint(probe.points[1], probe.start)
       /\ AtPoint(probe.points[Len(probe.points)], probe.end)

\* four samples of a curve whose ends and control points are all different
C21_Witness ==
    /\ probe.fn = "CubicBezierCurve"
    /\ probe.steps = 4
    /\ Cardinality({probe.start, probe.end, probe.control1, probe.control2}) = 4
    /\ ~AtPoint(probe.points[2], probe.start)
    /\ ~AtPoint(probe.points[3], probe.end)

\* C22: MoveMouse dispatches one pointer move per point of the path, in the
\* order of the path; the last pointer move is at the target; an overshoot
\* move is followed at once by a move at the target, which is the last one.
C22_MovesFollowPathToTarget ==
    probe.fn = "MoveMouse" =>
       LET path == CubicBezierCurve(probe.start, probe.target, probe.controlPoints[1],
                                    probe.controlPoints[2], MouseSteps)
           ev == probe.events
       IN /\ Len(SelectSeq(ev, LAMBDA e : e.role = "path")) = Len(path)
          /\ \A k \in 1..Len(path) :
                ev[k].role = "path" /\ ev[k].X = path[k].X /\ ev[k].Y = path[k].Y
          /\ AtPoint(ev[Len(ev)], probe.target)
          /\ \A k \in 1..Len(ev) :
                ev[k].role = "overshoot" =>
                   /\ k + 1 = Len(ev)
                   /\ AtPoint(ev[k + 1], probe.target)
          /\ (probe.overshoot # <<>>) <=> (\E k \in 1..Len(ev) : ev[k].role = "overshoot")

\* an overshoot off the target, then the move back
C22_Witness ==
    /\ probe.fn = "MoveMouse"
    /\ probe.overshoot = <<2, -1>>
    /\ probe.start # probe.target
    /\ Len(probe.events) = MouseSteps + 2
    /\ ~AtPoint(probe.events[MouseSteps + 1], probe.target)

\* C23: an error returned by a pointer-move dispatch is returned by MoveMouse.
C23_MoveErrorPropagated ==
    (probe.fn = "MoveMouse" /\ \E k \in 1..Len(probe.events) : ~probe.events[k].ok)
       => probe.err # "nil"

CooldownBase(n) == IF n <= 10 THEN 2 ELSE IF n <= 15 THEN 3 ELSE 5

C26_ReadingDelayInRange ==
    probe.fn = "ReadingDelay" =>
       LET words == Quot(probe.contentLength, 5)
       IN /\ probe.d >= 0
          /\ 7 * words * 60000 < 2250 * (probe.d + 1)
          /\ 2250 * probe.d <= 13 * words * 60000

\* C25: ShouldTakeBreak(n) is false for n <= 0 and for n that is not a
\* multiple of 25; a break is taken only in the step that counts a successful
\* request, when the count of the cycle is a positive multiple of 25, and it
\* lasts between 10 and 30 minutes.
C25_BreakOnlyAfter25 ==
    /\ [](/\ \A n \in (0 - 1)..MaxProfiles :
               (n <= 0 \/ n % 25 # 0) => ShouldTakeBreak(n) = {FALSE}
          /\ main.breakDuration # 0 =>
               /\ main.requestsSent > 0
               /\ main.requestsSent % 25 = 0
               /\ 10 <= main.breakDuration
               /\ main.breakDuration <= 30)
    /\ [][main'.breakDuration # main.breakDuration /\ main'.breakDuration # 0
             => /\ main'.requestsSent = main.requestsSent + 1
                /\ main.pc = "send"
                /\ retry[Worker].result = "nil"]_vars

\* the second break of a batch in which some profiles were given up
C25_Witness ==
    /\ main.breakDuration = 29
    /\ main.requestsSent = 50
    /\ main.failed = 1

\* C27: within one calendar day the counts of the day window
\* (GetConnectionRequestsSentToday, GetActionsToday of every type) never
\* decrease, whichever storage operation runs (CleanupOldActions and
\* MarkRequestAccepted included): a step that lowers one of them changes the date
C27_DayCountsNeverDecrease ==
    [][DateOf(now') = DateOf(now) =>
          /\ GetConnectionRequestsSentToday' >= GetConnectionRequestsSentToday
          /\ \A actionType \in ActionTypes :
                GetActionsToday(actionType)' >= GetActionsToday(actionType)]_vars

\* a cleanup has deleted rows while today's windows hold an action and an
\* accepted request
C27_Witness ==
    /\ probe.fn = "CleanupOldActions"
    /\ probe.deleted > 0
    /\ GetActionsToday("connection_request") > 0
    /\ \E i \in DOMAIN connection_requests :
          /\ connection_requests[i].accepted
          /\ DateOf(connection_requests[i].sent_at) = DateOf(now)

\* C28: when the "Add a note" option is absent, or clicking it or typing the
\* note fails, SendConnectionRequest goes on to clickSendButton with no note
\* entered: the note phase always hands over to the Send click with no error
\* set, and a call whose note phase failed fails only with an error of the
\* Send click
C28_NoteFailureStillSends ==
    /\ [](call[Worker].operation = "connect"
             /\ call[Worker].notePhase \in {"absent", "click failed", "type failed"}
          => /\ ~call[Worker].noteEntered
             /\ call[Worker].err \in
                   {"pending", "nil", "send button not found after trying all selectors",
                    "failed to click send button"})
    /\ [][pc[Worker] = "c_note" /\ pc'[Worker] # "c_note"
             => pc'[Worker] = "c_send" /\ call'[Worker].err = "pending"]_vars

\* a request was sent and recorded, and returned nil, after the typing of the
\* note had failed
C28_Witness ==
    /\ call[Worker].operation = "connect"
    /\ call[Worker].notePhase = "type failed"
    /\ call[Worker].sent
    /\ ~call[Worker].noteEntered
    /\ call[Worker].err = "nil"
    /\ Len(connection_requests) > 0

C31_InvitationsWithinLimit ==
    \A d \in Days : invitations[d] <= DailyLimit

\* the daily gates on the count of the present state
C32_GatesAgree ==
    LET n == GetConnectionRequestsSentToday
    IN /\ connection_CheckDailyLimit(n, DailyLimit)[1] <=> ~GateDenied(n)
       /\ CheckDailyLimit(n, DailyLimit)[1] <=> ~GateDenied(n)
       /\ (main.pc = "send" /\ InConnect(Worker)) => call[Worker].admit # "denied"

\* the orchestrator hands a profile to SendConnectionRequest only on a count
\* the gate of SendConnectionRequest passes, and the gate, run on the count
\* the orchestrator saw, passes
C32_AdmissionStep ==
    /\ (main.pc = "profile" /\ main'.pc = "send") =>
           /\ ~GateDenied(GetConnectionRequestsSentToday)
           /\ CheckDailyLimit(GetConnectionRequestsSentToday, DailyLimit)[1]
    /\ (main.pc = "send" /\ pc[Worker] = "c_gate" /\ pc'[Worker] = "op_ret") =>
           call'[Worker].admit # "denied"

\* C32: connection.CheckDailyLimit, the gate inside SendConnectionRequest and
\* stealth.CheckDailyLimit allow or deny together on the count of requests of
\* today, in every state; a profile the orchestrator admitted is not rejected
\* by the gate of SendConnectionRequest.
C32_DailyGatesAgree == [](C32_GatesAgree) /\ [][C32_AdmissionStep]_vars

\* the orchestrator admitted the profile on the last free slot, the gate
\* passed on the same count, and the request recorded closes all three gates
C32_Witness ==
    /\ main.pc = "send"
    /\ InConnect(Worker)
    /\ pc[Worker] = "op_ret"
    /\ call[Worker].admit = "passed"
    /\ call[Worker].requestsToday = DailyLimit - 1
    /\ GetConnectionRequestsSentToday = DailyLimit
    /\ GateDenied(GetConnectionRequestsSentToday)
    /\ ~connection_CheckDailyLimit(GetConnectionRequestsSentToday, DailyLimit)[1]
    /\ ~CheckDailyLimit(GetConnectionRequestsSentToday, DailyLimit)[1]

C33_FollowUpStep ==
    \A u \in Urls :
        /\ delivered'[u] > delivered[u] =>
              \E i \in DOMAIN connection_requests :
                 /\ connection_requests[i].profile_url = u
                 /\ ~connection_requests[i].accepted
                 /\ now - connection_requests[i].sent_at >= TicksPerDay
                 /\ now - connection_requests[i].sent_at >= DelayAfterAcceptance
        /\ (\E i \in DOMAIN connection_requests :
                 /\ connection_requests[i].profile_url = u
                 /\ ~connection_requests[i].accepted
                 /\ connection_requests'[i].accepted) =>
              /\ call'[Worker].operation = "process"
              /\ call'[Worker].err = "nil"
              /\ delivered'[u] > delivered[u] \/ u \in call'[Worker].skipped

C34_RecordedNoteStep ==
    (pc[Worker] = "c_record" /\ Len(connection_requests') = Len(connection_requests) + 1) =>
        LET row == connection_requests'[Len(connection_requests')]
        IN /\ call[Worker].notePhase = "entered" => row.note = call[Worker].note
           /\ call[Worker].notePhase # "entered" => row.note = ""

\* C34: the note recorded with a connection request is the text entered into
\* the invitation dialog: the note of the call when it was typed, and the
\* empty note when the "Add a note" option was absent or the note could not
\* be entered.
C34_RecordedNoteIsEnteredNote == [][C34_RecordedNoteStep]_vars

InLogin(w) == call[w].operation = "login"

\* C35: Login returns nil only when isLoggedIn has confirmed the login, for the
\* restored session or after a fresh login; it makes at most MaxLoginRetries
\* fresh attempts, and it skips the fresh login only when a saved session was
\* loaded and found valid.
C35_LoginNilOnlyWhenConfirmed ==
    InLogin(Worker) =>
        /\ call[Worker].err = "nil" => call[Worker].confirmed
        /\ Len(call[Worker].attempts) <= MaxLoginRetries
        /\ (pc[Worker] \in {"l_ret", "l_done", "l_fatal"} /\ call[Worker].attempts = <<>>) =>
              call[Worker].sessionLoaded /\ call[Worker].sessionValid

\* C36: the backoff main sleeps after a failed cycle is 1, 2, 4, 8 or 16
\* seconds whatever the cycle count, and so always below the cap of 300
\* seconds.
C36_BackoffBelowCap ==
    main.sleep = "backoff" =>
        /\ main.backoff \in {1, 2, 4, 8, 16}
        /\ main.backoff < 300

\* the fifth cycle failed: the exponent has wrapped and the backoff is 1 second
C36_Witness ==
    /\ main.sleep = "backoff"
    /\ main.cycleCount = 5
    /\ main.streak = 5
    /\ main.backoff = 1

====
